---- MODULE Spec2Model ----
(***************************************************************************)
(* Reddit-Stock-Tracker: the three-tier fetch pipeline of                  *)
(* RedditStockTracker.process (reddit_stocks.py), the fetcher retry of     *)
(* make_api_call and the parsers (utils.py), SECTickerValidator            *)
(* (validator.py) and StocksDB.insert (stocks_db.py).                      *)
(*                                                                         *)
(* Conventions.  A Python string is a sequence of characters; a character  *)
(* is a one-element TLA+ string.  Identifiers such as "p1" or "c1" are     *)
(* written as a single character, since no code path looks inside them.    *)
(* A JSON value is a tagged record (JNone, JStr, JNum, JList, JDict).  A   *)
(* Python expression that may raise evaluates to [e |-> "ok", v |-> value] *)
(* or to [e |-> <exception class>, v |-> JNone].                           *)
(***************************************************************************)
EXTENDS Integers, Sequences, FiniteSets, TLC

VARIABLES
    pc,             \* position of main()/process()
    valid_tickers,  \* SECTickerValidator.valid_tickers
    C,              \* max_concurrent_requests, the size of the permit pool
    sem,            \* asyncio.Semaphore._value: the free permits
    listing,        \* the make_api_call of process() for the listing
    post_ids,       \* process(): post_ids
    post_tasks,     \* process(): the tasks of asyncio.gather(*post_tasks)
    comment_tasks,  \* process(): the tasks of asyncio.gather(*comment_fetch_tasks)
    reply_tasks,    \* process(): the tasks of asyncio.gather(*reply_tasks)
    rows,           \* the rows committed to the stocks table, in commit order
    stat,           \* history: the tasks created, the tasks ended, the children yielded
    vin,            \* the entities the extractor returned (SpecValidate)
    vout            \* the result of validate for them (SpecValidate)

vars == <<pc, valid_tickers, C, sem, listing, post_ids, post_tasks,
          comment_tasks, reply_tasks, rows, stat, vin, vout>>

(***************************************************************************)
(* Bounds of the model.                                                    *)
(***************************************************************************)
MaxPermits == 2     \* C ranges over 1..MaxPermits
MaxPosts == 2       \* entries of a listing response
MaxComments == 2    \* comment ids the post responses of one run yield in total
MaxReplies == 1     \* reply objects the comment responses of one run yield in total
MaxRateLimits == 2  \* 429 answers of one run
MaxEntities == 3    \* entities the extractor returns for one text (SpecValidate)

(***************************************************************************)
(* Program constants.                                                      *)
(***************************************************************************)
MAX_RETRIES == 1
NUM_COMMENTS_PER_POST == 5
max_chars == 1200

(***************************************************************************)
(* Python strings.                                                         *)
(***************************************************************************)
Whitespace == {" ", "\n"}

\* ord(c) for the characters the model uses
Ord(c) ==
    CASE c = "\n" -> 10 [] c = " " -> 32 [] c = "$" -> 36
      [] c = "A" -> 65 [] c = "D" -> 68 [] c = "E" -> 69 [] c = "G" -> 71
      [] c = "I" -> 73 [] c = "L" -> 76 [] c = "M" -> 77 [] c = "O" -> 79
      [] c = "P" -> 80 [] c = "S" -> 83 [] c = "T" -> 84 [] c = "W" -> 87
      [] c = "X" -> 88 [] c = "Y" -> 89 [] c = "Z" -> 90
      [] c = "a" -> 97 [] c = "d" -> 100 [] c = "e" -> 101 [] c = "g" -> 103
      [] c = "i" -> 105 [] c = "l" -> 108 [] c = "m" -> 109 [] c = "o" -> 111
      [] c = "p" -> 112 [] c = "s" -> 115 [] c = "t" -> 116 [] c = "w" -> 119
      [] c = "x" -> 120
      [] OTHER -> 200

\* str.upper() of one character
UpperChar(c) ==
    CASE c = "a" -> "A" [] c = "d" -> "D" [] c = "e" -> "E" [] c = "g" -> "G"
      [] c = "i" -> "I" [] c = "l" -> "L" [] c = "m" -> "M" [] c = "o" -> "O"
      [] c = "p" -> "P" [] c = "s" -> "S" [] c = "t" -> "T" [] c = "w" -> "W"
      [] c = "x" -> "X"
      [] OTHER -> c

\* s.upper()
upper(s) == [i \in 1..Len(s) |-> UpperChar(s[i])]

RECURSIVE lstrip(_)
lstrip(s) == IF s # <<>> /\ Head(s) \in Whitespace THEN lstrip(Tail(s)) ELSE s

RECURSIVE rstrip(_)
rstrip(s) ==
    IF s # <<>> /\ s[Len(s)] \in Whitespace THEN rstrip(SubSeq(s, 1, Len(s) - 1)) ELSE s

\* s.strip()
strip(s) == rstrip(lstrip(s))

\* s.startswith(c)
startswith(s, c) == s # <<>> /\ Head(s) = c

\* a < b for Python strings (code point order)
RECURSIVE StrLess(_, _)
StrLess(a, b) ==
    IF a = <<>> THEN b # <<>>
    ELSE IF b = <<>> THEN FALSE
    ELSE IF Head(a) = Head(b) THEN StrLess(Tail(a), Tail(b))
    ELSE Ord(Head(a)) < Ord(Head(b))

\* variant of sorted: descending
RECURSIVE sorted_desc(_)
sorted_desc(S) ==
    IF S = {} THEN <<>>
    ELSE LET m == CHOOSE x \in S : \A y \in S \ {x} : StrLess(y, x)
         IN  <<m>> \o sorted_desc(S \ {m})

\* sorted(list(S)) for a set S of strings
RECURSIVE sorted(_)
sorted(S) ==
    IF S = {} THEN <<>>
    ELSE LET m == CHOOSE x \in S : \A y \in S \ {x} : StrLess(x, y)
         IN  <<m>> \o sorted(S \ {m})

\* s.split(sep) for a one-character separator
RECURSIVE split(_, _)
split(s, sep) ==
    IF \A i \in 1..Len(s) : s[i] # sep THEN <<s>>
    ELSE LET i == CHOOSE j \in 1..Len(s) :
                      s[j] = sep /\ \A h \in 1..(j - 1) : s[h] # sep
         IN  <<SubSeq(s, 1, i - 1)>> \o split(SubSeq(s, i + 1, Len(s)), sep)

(***************************************************************************)
(* JSON values and the Python operations the parsers apply to them.        *)
(***************************************************************************)
JNone == [k |-> "none"]
JStr(s) == [k |-> "str", s |-> s]
JNum(n) == [k |-> "num", n |-> n]
JList(xs) == [k |-> "list", items |-> xs]

\* the order in which the keys of a dict written as a record were inserted; a
\* record has no order of its own, so the dicts built with JDict are the dicts
\* whose keys were inserted in this order
RECURSIVE KeySeq(_)
KeySeq(S) ==
    IF S = {} THEN <<>>
    ELSE LET x == CHOOSE y \in S : TRUE IN <<JStr(<<x>>)>> \o KeySeq(S \ {x})

\* a dict: its items m and its keys in insertion order, which is the order
\* Python iterates them in.  JDictOf(<<"b", "a">>, [a |-> x, b |-> y]) is
\* {"b": y, "a": x}
JDictOf(keys, m) ==
    [k |-> "dict", m |-> m, keys |-> [i \in 1..Len(keys) |-> JStr(<<keys[i]>>)]]
JDict(m) == [k |-> "dict", m |-> m, keys |-> KeySeq(DOMAIN m)]

Ok(v) == [e |-> "ok", v |-> v]
Raise(x) == [e |-> x, v |-> JNone]

\* bool(v)
Truthy(v) ==
    CASE v.k = "none" -> FALSE
      [] v.k = "str" -> v.s # <<>>
      [] v.k = "num" -> v.n # 0
      [] v.k = "list" -> v.items # <<>>
      [] v.k = "dict" -> DOMAIN v.m # {}

\* x.get(key, default)
Get(x, key, default) ==
    IF x.e # "ok" THEN x
    ELSE IF x.v.k # "dict" THEN Raise("AttributeError")
    ELSE IF key \in DOMAIN x.v.m THEN Ok(x.v.m[key]) ELSE Ok(default)

\* x[key] for a string key
Item(x, key) ==
    IF x.e # "ok" THEN x
    ELSE IF x.v.k # "dict" THEN Raise("TypeError")
    ELSE IF key \in DOMAIN x.v.m THEN Ok(x.v.m[key]) ELSE Raise("KeyError")

\* x[i] for an integer index i >= 0
Index(x, i) ==
    IF x.e # "ok" THEN x
    ELSE CASE x.v.k = "list" ->
                IF i < Len(x.v.items) THEN Ok(x.v.items[i + 1]) ELSE Raise("IndexError")
           [] x.v.k = "str" ->
                IF i < Len(x.v.s) THEN Ok(JStr(<<x.v.s[i + 1]>>)) ELSE Raise("IndexError")
           [] x.v.k = "dict" -> Raise("KeyError")
           [] OTHER -> Raise("TypeError")

\* list(x): the items a for loop or list.extend sees, as a sequence
Iter(x) ==
    IF x.e # "ok" THEN x
    ELSE CASE x.v.k = "list" -> [e |-> "ok", v |-> x.v.items]
           [] x.v.k = "str" -> [e |-> "ok", v |-> [i \in 1..Len(x.v.s) |-> JStr(<<x.v.s[i]>>)]]
           [] x.v.k = "dict" -> [e |-> "ok", v |-> x.v.keys]
           [] OTHER -> Raise("TypeError")

\* value.strip() of a JSON value: only str has the method
StripOf(x) ==
    IF x.e # "ok" THEN x
    ELSE IF x.v.k # "str" THEN Raise("AttributeError")
    ELSE Ok(JStr(strip(x.v.s)))

EmptyDict == JDict(<<>>)
EmptyStr == JStr(<<>>)

(***************************************************************************)
(* utils.py: SubmissionType, SubmissionData and the parsers.               *)
(***************************************************************************)
POST == 0
COMMENT == 1
REPLY == 2

\* SubmissionData(...): the dataclass of utils.py, which reddit_stocks.py uses
SubmissionData(submission_id, score, created_utc, author, subreddit, type) ==
    [submission_id |-> submission_id, score |-> score, created_utc |-> created_utc,
     author |-> author, subreddit |-> subreddit, type |-> type]

\* the None of "SubmissionData | None"
NoSubmission == [type |-> -1]

\* extract_submission_data: [e, text, sub]
extract_submission_data(submission_json, submission_type) ==
    LET j == Ok(submission_json)
        selftext == StripOf(Get(j, "selftext", EmptyStr))
        body == StripOf(Get(j, "body", EmptyStr))
        \* a or b: b is evaluated only when a is falsy
        text == IF selftext.e # "ok" THEN selftext
                ELSE IF Truthy(selftext.v) THEN selftext ELSE body
        t == Get(j, "title", EmptyStr)
        title == IF Truthy(t.v) THEN t.v ELSE EmptyStr
    IN  IF text.e # "ok" THEN [e |-> text.e, text |-> <<>>, sub |-> NoSubmission]
        ELSE IF title.k # "str"
             \* str + (a value that is no str)
             THEN [e |-> "TypeError", text |-> <<>>, sub |-> NoSubmission]
        ELSE [e |-> "ok",
              text |-> text.v.s \o title.s,
              sub |-> SubmissionData(Get(j, "id", EmptyStr).v,
                                     Get(j, "score", JNum(0)).v,
                                     Get(j, "created_utc", JNum(0)).v,
                                     Get(j, "author", JStr(<<"Unknown">>)).v,
                                     Get(j, "subreddit", JStr(<<"Unknown">>)).v,
                                     submission_type)]

\* child.get("data", {}).get("id")
ChildId(child) == Get(Get(Ok(child), "data", EmptyDict), "id", JNone)

\* the loop "for child in items: id = ...; if id: ids.append(id)": [e, ids], the
\* ids appended before the first exception
RECURSIVE CollectIds(_, _)
CollectIds(items, ids) ==
    IF items = <<>> THEN [e |-> "ok", ids |-> ids]
    ELSE LET id == ChildId(Head(items))
         IN  IF id.e # "ok" THEN [e |-> id.e, ids |-> ids]
             ELSE CollectIds(Tail(items),
                             IF Truthy(id.v) THEN Append(ids, id.v) ELSE ids)

Caught3 == {"KeyError", "TypeError", "IndexError"}
Caught2 == {"KeyError", "TypeError"}

\* parse_json_for_post_ids: [e, ids]; e is "ok" or the exception that escapes
parse_json_for_post_ids(raw_json) ==
    LET children == Iter(Get(Get(Ok(raw_json), "data", EmptyDict), "children", JList(<<>>)))
        loop == IF children.e # "ok" THEN [e |-> children.e, ids |-> <<>>]
                ELSE CollectIds(children.v, <<>>)
    IN  IF loop.e \in Caught2 THEN [e |-> "ok", ids |-> loop.ids] ELSE loop

\* the first n items of a sequence
Take(s, n) == SubSeq(s, 1, IF Len(s) < n THEN Len(s) ELSE n)

ParseFailed == [e |-> "ok", sub |-> NoSubmission, text |-> <<>>, kids |-> <<>>]
ParseRaised(x) == [e |-> x, sub |-> NoSubmission, text |-> <<>>, kids |-> <<>>]

\* variant of parse_json_for_post_content: the except branch returns the
\* comment ids collected before the exception
parse_json_for_post_content_keepIds(raw_json) ==
    LET r == Ok(raw_json)
        comments_data == Iter(Item(Item(Index(r, 1), "data"), "children"))
        loop == IF comments_data.e # "ok" THEN [e |-> comments_data.e, ids |-> <<>>]
                ELSE CollectIds(Take(comments_data.v, NUM_COMMENTS_PER_POST), <<>>)
        post_data == Item(Index(Item(Item(Index(r, 0), "data"), "children"), 0), "data")
        x == IF post_data.e # "ok" THEN [e |-> post_data.e]
             ELSE extract_submission_data(post_data.v, POST)
        exc == IF loop.e # "ok" THEN loop.e ELSE x.e
    IN  IF exc \in Caught3 THEN [ParseFailed EXCEPT !.kids = loop.ids]
        ELSE IF exc # "ok" THEN ParseRaised(exc)
        ELSE [e |-> "ok", sub |-> x.sub, text |-> x.text, kids |-> loop.ids]

\* parse_json_for_post_content: [e, sub, text, kids]
parse_json_for_post_content(raw_json) ==
    LET r == Ok(raw_json)
        comments_data == Iter(Item(Item(Index(r, 1), "data"), "children"))
        loop == IF comments_data.e # "ok" THEN [e |-> comments_data.e, ids |-> <<>>]
                ELSE CollectIds(Take(comments_data.v, NUM_COMMENTS_PER_POST), <<>>)
        post_data == Item(Index(Item(Item(Index(r, 0), "data"), "children"), 0), "data")
        x == IF post_data.e # "ok" THEN [e |-> post_data.e]
             ELSE extract_submission_data(post_data.v, POST)
        exc == IF loop.e # "ok" THEN loop.e ELSE x.e
    IN  IF exc \in Caught3 THEN ParseFailed
        ELSE IF exc # "ok" THEN ParseRaised(exc)
        ELSE [e |-> "ok", sub |-> x.sub, text |-> x.text, kids |-> loop.ids]

\* parse_json_for_comment_content: [e, sub, text, kids], kids the reply objects
parse_json_for_comment_content(raw_json) ==
    LET comment_data ==
            Item(Index(Item(Item(Index(Ok(raw_json), 1), "data"), "children"), 0), "data")
        replies_structure == Get(comment_data, "replies", EmptyDict)
        replies_children ==
            IF replies_structure.e # "ok" THEN replies_structure
            ELSE IF replies_structure.v.k # "dict" THEN [e |-> "ok", v |-> <<>>]
            ELSE Iter(Get(Get(replies_structure, "data", EmptyDict), "children", JList(<<>>)))
        x == IF replies_children.e # "ok" THEN [e |-> replies_children.e]
             ELSE extract_submission_data(comment_data.v, COMMENT)
    IN  IF x.e \in Caught3 THEN ParseFailed
        ELSE IF x.e # "ok" THEN ParseRaised(x.e)
        ELSE [e |-> "ok", sub |-> x.sub, text |-> x.text,
              kids |-> replies_children.v]

\* parse_json_for_reply_content: [e, sub, text, kids]
parse_json_for_reply_content(raw_json) ==
    LET reply_data == Get(Ok(raw_json), "data", raw_json)
        x == IF reply_data.e # "ok" THEN [e |-> reply_data.e]
             ELSE extract_submission_data(reply_data.v, REPLY)
    IN  IF x.e \in Caught3 THEN ParseFailed
        ELSE IF x.e # "ok" THEN ParseRaised(x.e)
        ELSE [e |-> "ok", sub |-> x.sub, text |-> x.text, kids |-> <<>>]


(***************************************************************************)
(* validator.py: SECTickerValidator.validate.                              *)
(***************************************************************************)
AAPL == <<"A", "A", "P", "L">>
TSLA == <<"T", "S", "L", "A">>
GME == <<"G", "M", "E">>
XYZ == <<"X", "Y", "Z">>
EDIT == <<"E", "D", "I", "T">>
AI == <<"A", "I">>
WELL == <<"W", "E", "L", "L">>
LOT == <<"L", "O", "T">>

EXCLUSION_LIST == {EDIT, AI, WELL, LOT}

\* the loop over lines that fills chunks (text longer than max_chars)
RECURSIVE ChunkLoop(_, _, _)
ChunkLoop(lines, current_chunk, chunks) ==
    IF lines = <<>>
    THEN IF current_chunk # <<>> THEN Append(chunks, strip(current_chunk)) ELSE chunks
    ELSE LET line == Head(lines)
         IN  IF Len(current_chunk) + Len(line) + 1 <= max_chars
             THEN ChunkLoop(Tail(lines), current_chunk \o line \o <<"\n">>, chunks)
             ELSE ChunkLoop(Tail(lines), line \o <<"\n">>,
                            IF current_chunk # <<>>
                            THEN Append(chunks, strip(current_chunk)) ELSE chunks)

\* chunks: the text, or its lines packed into chunks of at most max_chars
Chunks(text) ==
    IF Len(text) > max_chars THEN ChunkLoop(split(text, "\n"), <<>>, <<>>) ELSE <<text>>

\* the words of a string: its maximal runs of non-whitespace characters
RECURSIVE Words(_)
Words(s) ==
    LET t == lstrip(s)
    IN  IF t = <<>> THEN <<>>
        ELSE LET n == CHOOSE j \in 1..Len(t) :
                          /\ \A h \in 1..j : t[h] \notin Whitespace
                          /\ (j = Len(t) \/ t[j + 1] \in Whitespace)
             IN  <<SubSeq(t, 1, n)>> \o Words(SubSeq(t, n + 1, Len(t)))

\* gliner_model.predict_entities(chunk, ["stock ticker"], threshold=0.5): the
\* extractor is an external model; here it is the extractor that labels every
\* word of the chunk.  The result is the sequence of entity['text'].
predict_entities(chunk) == Words(chunk)

\* lines 102-109: strip, drop one leading '$', uppercase
ticker_upper(entity_text) ==
    LET ticker_text == strip(entity_text)
    IN  upper(IF startswith(ticker_text, "$") THEN Tail(ticker_text) ELSE ticker_text)

\* variant of Accepted: the registry is not consulted
Accepted_unregistered(t, registry) == t \notin EXCLUSION_LIST

\* variant of Accepted: the exclusion list is not consulted
Accepted_unexcluded(t, registry) == t \in registry

\* lines 112-113: is the normalized candidate added to tickers_found
Accepted(t, registry) == t \in registry /\ t \notin EXCLUSION_LIST

\* lines 100-118 for the entities of one chunk
tickers_found(entities, registry) ==
    {t \in {ticker_upper(entities[i]) : i \in 1..Len(entities)} : Accepted(t, registry)}

\* variant of validate_entities: the accepted candidates as a list, in order
validate_entities_list(entities, registry) ==
    SelectSeq([i \in 1..Len(entities) |-> ticker_upper(entities[i])],
              LAMBDA t : Accepted(t, registry))

\* lines 100-118: the result of validate when the extractor returned entities
validate_entities(entities, registry) == sorted(tickers_found(entities, registry))

\* validate(text)
validate(text, registry) ==
    LET chunks == Chunks(text)
    IN  sorted(UNION {tickers_found(predict_entities(chunks[i]), registry) :
                        i \in 1..Len(chunks)})

(***************************************************************************)
(* stocks_db.py: StocksDB.insert.                                          *)
(***************************************************************************)
\* datetime.fromtimestamp(created_utc, tz=timezone.utc)
fromtimestamp(created_utc) ==
    IF created_utc.k = "num" THEN Ok([utc_seconds |-> created_utc.n]) ELSE Raise("TypeError")

\* lines 22-28: CREATE TYPE submission_type AS ENUM ('POST', 'COMMENT', 'REPLY'),
\* the type of the column "type" (line 41); custom_types.SubmissionType has the
\* same three values
submission_type == {JStr(<<"POST">>), JStr(<<"COMMENT">>), JStr(<<"REPLY">>)}

\* line 63: the parameter submission.type.value as the Python object it is: the
\* int of utils.SubmissionType, of which reddit_stocks.py builds its Submissions
type_value(type) == JNum(type)

\* variant of Row: author and subreddit change places in the parameter tuple
Row_swapped(ticker, submission, created_dt) ==
    [submission_id |-> submission.submission_id, ticker |-> ticker,
     author |-> submission.subreddit, subreddit |-> submission.author,
     score |-> submission.score, type |-> submission.type, created_utc |-> created_dt]

\* the parameters of one INSERT (lines 57-65)
Row(ticker, submission, created_dt) ==
    [submission_id |-> submission.submission_id, ticker |-> ticker,
     author |-> submission.author, subreddit |-> submission.subreddit,
     score |-> submission.score, type |-> submission.type, created_utc |-> created_dt]

\* variant of insert: the loop over tickers skips the first one
insert_skipFirst(tickers, submission, db_ok) ==
    LET created_dt == fromtimestamp(submission.created_utc)
    IN  IF created_dt.e # "ok" THEN [e |-> created_dt.e, rows |-> <<>>]
        ELSE IF ~db_ok THEN [e |-> "DatabaseError", rows |-> <<>>]
        ELSE [e |-> "ok",
              rows |-> [i \in 1..(Len(tickers) - 1) |->
                           Row(tickers[i + 1], submission, created_dt.v)]]

\* insert(tickers, submission): [e, rows]; db_ok is the sink's answer: whether
\* every execute and the commit went through
insert(tickers, submission, db_ok) ==
    LET created_dt == fromtimestamp(submission.created_utc)
    IN  IF created_dt.e # "ok" THEN [e |-> created_dt.e, rows |-> <<>>]
        ELSE IF ~db_ok THEN [e |-> "DatabaseError", rows |-> <<>>]
        ELSE [e |-> "ok",
              rows |-> [i \in 1..Len(tickers) |-> Row(tickers[i], submission, created_dt.v)]]


(***************************************************************************)
(* utils.py: make_api_call.                                                *)
(***************************************************************************)
\* variant of make_api_call: the retry budget is compared with > instead of >=
make_api_call_gt(status, retry_count) ==
    IF status = 429
    THEN IF retry_count > MAX_RETRIES THEN "None" ELSE "retry"
    ELSE IF status = 200 THEN "json" ELSE "None"

\* what one GET attempt with this retry_count leads to, by response status:
\* "retry" (sleep, then the recursive call), "None" or "json" (the body)
make_api_call(status, retry_count) ==
    IF status = 429
    THEN IF retry_count >= MAX_RETRIES THEN "None" ELSE "retry"
    ELSE IF status = 200 THEN "json" ELSE "None"

\* a fetch call in progress: st is "wait" (for a permit), "granted" (a release
\* handed the permit to the task, which has not resumed yet), "get" (GET in
\* flight), "sleep" (asyncio.sleep(60)) or "done"; rc is retry_count.  History fields:
\* gets counts the GET attempts, lim the 429 answers, slept the finished sleeps.
NewCall == [st |-> "wait", rc |-> 0, gets |-> 0, lim |-> 0, slept |-> 0]

\* session.get(...) is issued
IssueGet(c) == [c EXCEPT !.st = "get", !.gets = @ + 1]

\* a 429 with retries left: asyncio.sleep(60) starts
StartSleep(c) == [c EXCEPT !.st = "sleep", !.lim = @ + 1]

\* the sleep is over: make_api_call(url, session, params, retry_count + 1)
RetryCall(c) == IssueGet([c EXCEPT !.rc = @ + 1, !.slept = @ + 1])

\* the call returns
EndCall(c, status) ==
    [c EXCEPT !.st = "done", !.lim = IF status = 429 THEN @ + 1 ELSE @]

(***************************************************************************)
(* reddit_stocks.py: the tasks of RedditStockTracker.                      *)
(***************************************************************************)
\* a task of fetch_post_data_and_comment_ids(id), fetch_comment_data(id, post)
\* or fetch_reply_data(reply): its fetch call, its outcome out ("" while it
\* runs, "nofetch", "noparse", "ok" or "raised"), the exception err it raised,
\* the text its parser returned, its return value res and the number ins of
\* db.insert calls it made.  For a reply task id is the reply object.
NewTask(id, post) ==
    [id |-> id, post |-> post, call |-> NewCall, out |-> "", err |-> "", text |-> <<>>,
     res |-> <<>>, ins |-> 0]

\* a task of fetch_reply_data(reply): it makes no fetch call and gets no post id
NewReplyTask(reply) == [NewTask(reply, JNone) EXCEPT !.call.st = "ready"]

\* "async with self.semaphore" entered: the task holds a permit and issues its GET
Start(t) == [t EXCEPT !.call = IssueGet(@)]

Min(a, b) == IF a < b THEN a ELSE b

\* variant of Launch: every task issues its GET at once, permits or not
Launch_unbounded(ts, permits) == [i \in 1..Len(ts) |-> Start(ts[i])]

\* asyncio.gather(*tasks): the tasks start in order; the first `permits` of them
\* enter the semaphore, the others queue on it in order
Launch(ts, permits) == [i \in 1..Len(ts) |-> IF i <= permits THEN Start(ts[i]) ELSE ts[i]]

\* the first task queued on the semaphore, 0 if none
FirstWaiter(ts) ==
    IF \E i \in 1..Len(ts) : ts[i].call.st = "wait"
    THEN CHOOSE i \in 1..Len(ts) :
             ts[i].call.st = "wait" /\ \A j \in 1..(i - 1) : ts[j].call.st # "wait"
    ELSE 0

\* variant of Release: the first waiter is not woken
Release_dropped(ts) == ts

\* the waiter's future is resolved: the task holds the permit and resumes in a
\* later callback of the event loop
Grant(t) == [t EXCEPT !.call.st = "granted"]

\* Semaphore.release(): the permit goes to the first waiter, if any (the value
\* of the semaphore stays as it is then)
Release(ts) ==
    IF FirstWaiter(ts) = 0 THEN ts ELSE [ts EXCEPT ![FirstWaiter(ts)] = Grant(@)]

\* variant of Released: the ended fetch gives no permit back
Released_kept(ts, value) == value

\* the free permits after a release
Released(ts, value) == IF FirstWaiter(ts) = 0 THEN value + 1 ELSE value

\* the permits held by the tasks of ts
Held(ts) ==
    Cardinality({i \in 1..Len(ts) : ts[i].call.st \in {"granted", "get", "sleep"}})

\* lines 148-152 (105-109, 122-126): validate and insert of a parsed node:
\* [e, rows, called]
Persist(parsed, registry, db_ok) ==
    LET tickers == IF parsed.sub # NoSubmission /\ parsed.text # <<>>
                   THEN validate(parsed.text, registry) ELSE <<>>
    IN  IF tickers = <<>> THEN [e |-> "ok", rows |-> <<>>, called |-> 0]
        ELSE [e |-> insert(tickers, parsed.sub, db_ok).e,
              rows |-> insert(tickers, parsed.sub, db_ok).rows, called |-> 1]

\* variant of Finish: the children are returned inside "if tickers:" only
Finish_ifInserted(t, parsed, persisted) ==
    IF parsed.e # "ok"
    THEN [t EXCEPT !.call = EndCall(@, 200), !.out = "raised", !.err = parsed.e]
    ELSE IF persisted.e # "ok"
    THEN [t EXCEPT !.call = EndCall(@, 200), !.out = "raised", !.err = persisted.e,
                   !.text = parsed.text, !.ins = persisted.called]
    ELSE [t EXCEPT !.call = EndCall(@, 200),
                   !.out = IF parsed.sub = NoSubmission THEN "noparse" ELSE "ok",
                   !.text = parsed.text,
                   !.res = IF persisted.called = 1 THEN parsed.kids ELSE <<>>,
                   !.ins = persisted.called]

\* a task after its fetch returned a body: parse, validate, insert, return
Finish(t, parsed, persisted) ==
    IF parsed.e # "ok"
    THEN [t EXCEPT !.call = EndCall(@, 200), !.out = "raised", !.err = parsed.e]
    ELSE IF persisted.e # "ok"
    THEN [t EXCEPT !.call = EndCall(@, 200), !.out = "raised", !.err = persisted.e,
                   !.text = parsed.text, !.ins = persisted.called]
    ELSE [t EXCEPT !.call = EndCall(@, 200),
                   !.out = IF parsed.sub = NoSubmission THEN "noparse" ELSE "ok",
                   !.text = parsed.text, !.res = parsed.kids, !.ins = persisted.called]

\* a task whose fetch returned None or an empty body: "return []"
FinishNoFetch(t, status) == [t EXCEPT !.call = EndCall(@, status), !.out = "nofetch"]

\* the rows of one insert call, tagged with the node that made the call
Tagged(tier, i, rs) == [j \in 1..Len(rs) |-> [node |-> <<tier, i>>, row |-> rs[j]]]

\* lines 176: post_tasks
BuildPostTasks(ids) == [i \in 1..Len(ids) |-> NewTask(ids[i], ids[i])]

\* variant of BuildCommentTasks: every comment task gets the first post's id
RECURSIVE BuildCommentTasks_firstPost(_, _, _)
BuildCommentTasks_firstPost(post_results, ids, i) ==
    IF i > Len(post_results) THEN <<>>
    ELSE [j \in 1..Len(post_results[i]) |-> NewTask(post_results[i][j], ids[1])]
         \o BuildCommentTasks_firstPost(post_results, ids, i + 1)

\* lines 182-187: comment_fetch_tasks from post_results and post_ids
RECURSIVE BuildCommentTasks(_, _, _)
BuildCommentTasks(post_results, ids, i) ==
    IF i > Len(post_results) THEN <<>>
    ELSE [j \in 1..Len(post_results[i]) |-> NewTask(post_results[i][j], ids[i])]
         \o BuildCommentTasks(post_results, ids, i + 1)

\* lines 194-198: reply_tasks from comment_results
RECURSIVE BuildReplyTasks(_, _)
BuildReplyTasks(comment_results, i) ==
    IF i > Len(comment_results) THEN <<>>
    ELSE [j \in 1..Len(comment_results[i]) |-> NewReplyTask(comment_results[i][j])]
         \o BuildReplyTasks(comment_results, i + 1)

\* the return values of a tier's tasks, in task order (asyncio.gather)
Results(ts) == [i \in 1..Len(ts) |-> ts[i].res]

\* variant of AllDone: gather returns with the first task that ended
AllDone_first(ts) == \E i \in 1..Len(ts) : ts[i].call.st = "done"

\* await asyncio.gather(*tasks) returns when every task has ended
AllDone(ts) == \A i \in 1..Len(ts) : ts[i].call.st = "done"
\* a task of the gather ended with an exception
AnyRaised(ts) == \E i \in 1..Len(ts) : ts[i].out = "raised"


(***************************************************************************)
(* The environment: what Reddit, the SEC and the database answer.          *)
(***************************************************************************)
PostName == <<"p1", "p2", "p3", "p4">>
CommentName == <<"c1", "c2">>

Id(name) == JStr(<<name>>)

\* the texts of the forum's posts: "" and "TSLA"
PostTexts == {<<>>, TSLA}

\* the texts of its comments and replies: "" and "$ai GME TSLA"
CommentTexts == {<<>>, <<"$", "a", "i", " ">> \o GME \o <<" ">> \o TSLA}

\* the symbols company_tickers.json lists
SEC_TICKERS == {AAPL, AI, GME, TSLA}

\* fallback.py: FALLBACK, the built-in list used when the SEC load fails
FALLBACK == {AAPL, TSLA}

\* {"kind": ..., "data": d}
Thing(d) == JDict([data |-> d])

\* {"kind": "Listing", "data": {"children": [...]}}
ListingOf(children) == JDict([data |-> JDict([children |-> JList(children)])])

\* the data of a post
PostData(name, selftext) ==
    JDict([id |-> Id(name), selftext |-> selftext, title |-> EmptyStr,
           score |-> JNum(7), created_utc |-> JNum(1700000000),
           author |-> Id("u1"), subreddit |-> Id("stocks")])

\* the data of a comment or of a reply
CommentData(name, body, replies) ==
    JDict([id |-> Id(name), body |-> body, replies |-> replies,
           score |-> JNum(3), created_utc |-> JNum(1700000001),
           author |-> Id("u2"), subreddit |-> Id("stocks")])

\* GET /r/<sub>/top.json with k posts
ListingJson(k) == ListingOf([i \in 1..k |-> Thing(JDict([id |-> Id(PostName[i])]))])

\* GET /comments/<post>.json: the post and its first comments
PostJson(post, selftext, kids) ==
    JList(<<ListingOf(<<Thing(PostData(post.s[1], selftext))>>),
            ListingOf([i \in 1..Len(kids) |-> Thing(JDict([id |-> kids[i]]))])>>)

\* GET /comments/<post>/comment/<comment>.json: the post, the comment, its replies
CommentJson(post, comment, body, replies) ==
    JList(<<ListingOf(<<Thing(PostData(post.s[1], EmptyStr))>>),
            ListingOf(<<Thing(CommentData(comment.s[1], body,
                                IF replies = <<>> THEN EmptyStr ELSE ListingOf(replies)))>>)>>)

\* an error document instead of the expected shape: {"error": 404}
ErrorJson == JDict([error |-> JNum(404)])

\* sequences over S of length at most n
SeqsUpTo(S, n) == UNION {[1..m -> S] : m \in 0..n}

\* listing bodies: k posts, an error document, a list where a dict is expected
ListingBodies ==
    {ListingJson(k) : k \in 0..MaxPosts} \cup {ErrorJson, JList(<<ErrorJson>>)}

\* post bodies with at most n comment ids: well formed, an error document, a
\* comment entry that is no dict, a null selftext
PostBodies(post, n) ==
    {PostJson(post, JStr(t), [i \in 1..m |-> Id(CommentName[i])]) :
         t \in PostTexts, m \in 0..Min(n, Len(CommentName))}
    \cup {ErrorJson,
          JList(<<ListingOf(<<>>), ListingOf(<<Id("more")>>)>>),
          PostJson(post, JNone, <<>>)}

\* reply objects: a reply with a text, and a bare id where an object is expected
ReplyObjects ==
    {Thing(CommentData("r1", JStr(t), EmptyStr)) : t \in CommentTexts \ {<<>>}}
    \cup {Id("more")}

\* comment bodies with at most n reply objects
CommentBodies(post, comment, n) ==
    {CommentJson(post, comment, JStr(t), rs) :
         t \in CommentTexts, rs \in SeqsUpTo(ReplyObjects, n)}
    \cup {ErrorJson, CommentJson(post, comment, JNone, <<>>)}

(***************************************************************************)
(* main() and RedditStockTracker.process(): the actions.                   *)
(***************************************************************************)
\* history of the run: per tier the tasks created (made), the tasks ended (ran),
\* the ended tasks that gave no Submission (fail) and the children the ended
\* tasks returned (kids); lim counts the 429 answers of the run
NoStat == [made |-> [post |-> 0, comment |-> 0, reply |-> 0],
           ran |-> [post |-> 0, comment |-> 0, reply |-> 0],
           fail |-> [post |-> 0, comment |-> 0, reply |-> 0],
           kids |-> [post |-> 0, comment |-> 0, reply |-> 0],
           lim |-> 0]

Made(st, tier, n) == [st EXCEPT !.made[tier] = @ + n]

Ran(st, tier, t) ==
    [st EXCEPT !.ran[tier] = @ + 1,
               !.fail[tier] = @ + (IF t.out = "ok" THEN 0 ELSE 1),
               !.kids[tier] = @ + Len(t.res)]

\* the listing call has returned its body: its frame is gone
Returned == [NewCall EXCEPT !.st = "done"]

Limited(st, status) == [st EXCEPT !.lim = @ + (IF status = 429 THEN 1 ELSE 0)]

\* lines 159-205: the counts process() has printed when it ends: the number of
\* tasks it launched per tier (lines 173 and 178, 190, 202), and nothing when
\* the listing call failed (line 169).  No line prints a number of failed nodes
\* or of inserted rows; line 205 prints the subreddit only.
Report(call, st) ==
    IF call = Returned THEN [visited |-> st.made] ELSE [none |-> TRUE]

Init ==
    /\ pc = "boot"
    /\ valid_tickers = {}
    /\ C \in 1..MaxPermits
    /\ sem = C
    /\ listing = NewCall
    /\ post_ids = <<>>
    /\ post_tasks = <<>>
    /\ comment_tasks = <<>>
    /\ reply_tasks = <<>>
    /\ rows = <<>>
    /\ stat = NoStat
    /\ vin = <<>>
    /\ vout = <<>>

\* validator.py lines 36-57: load_tickers adds the SEC's symbols to
\* self.valid_tickers, or replaces it by FALLBACK when anything raised
load_tickers(current, loaded) == IF loaded THEN current \cup SEC_TICKERS ELSE FALLBACK

\* main(): await validator.load_tickers(); the SEC answers or the load fails
LoadTickers ==
    /\ pc = "boot"
    /\ \E loaded \in BOOLEAN : valid_tickers' = load_tickers(valid_tickers, loaded)
    /\ pc' = "start"
    /\ UNCHANGED <<C, sem, listing, post_ids, post_tasks, comment_tasks, reply_tasks,
                   rows, stat, vin, vout>>

\* variant of ProcessStart: process() loads the registry again
ProcessStart_reloads ==
    /\ pc = "start"
    /\ listing' = IssueGet(listing)
    /\ valid_tickers' = load_tickers(valid_tickers, TRUE)
    /\ pc' = "listing"
    /\ UNCHANGED <<C, sem, post_ids, post_tasks, comment_tasks, reply_tasks, rows,
                   stat, vin, vout>>

\* process(): make_api_call(listing_url, self.session) issues its GET
ProcessStart ==
    /\ pc = "start"
    /\ listing' = IssueGet(listing)
    /\ pc' = "listing"
    /\ UNCHANGED <<valid_tickers, C, sem, post_ids, post_tasks, comment_tasks,
                   reply_tasks, rows, stat, vin, vout>>

\* may this status be answered now
Answers(status) == status = 429 => stat.lim < MaxRateLimits

\* the listing GET is answered 429 with a retry left
ListingRateLimited ==
    /\ pc = "listing" /\ listing.st = "get"
    /\ Answers(429)
    /\ make_api_call(429, listing.rc) = "retry"
    /\ listing' = StartSleep(listing)
    /\ stat' = Limited(stat, 429)
    /\ UNCHANGED <<pc, valid_tickers, C, sem, post_ids, post_tasks, comment_tasks,
                   reply_tasks, rows, vin, vout>>

\* the cooldown of the listing call is over
ListingWake ==
    /\ pc = "listing" /\ listing.st = "sleep"
    /\ listing' = RetryCall(listing)
    /\ UNCHANGED <<pc, valid_tickers, C, sem, post_ids, post_tasks, comment_tasks,
                   reply_tasks, rows, stat, vin, vout>>

\* variant of ListingFailed: process() raises instead of returning
ListingFailed_raises ==
    /\ pc = "listing" /\ listing.st = "get"
    /\ \E status \in {200, 429, 500} :
           /\ Answers(status)
           /\ make_api_call(status, listing.rc) = (IF status = 200 THEN "json" ELSE "None")
           /\ listing' = EndCall(listing, status)
           /\ stat' = Limited(stat, status)
    /\ pc' = "aborted"
    /\ UNCHANGED <<valid_tickers, C, sem, post_ids, post_tasks, comment_tasks,
                   reply_tasks, rows, vin, vout>>

\* lines 166-170: the listing call returns None, or 200 with an empty body:
\* process() returns
ListingFailed ==
    /\ pc = "listing" /\ listing.st = "get"
    /\ \E status \in {200, 429, 500} :
           /\ Answers(status)
           /\ make_api_call(status, listing.rc) = (IF status = 200 THEN "json" ELSE "None")
           /\ listing' = EndCall(listing, status)
           /\ stat' = Limited(stat, status)
    /\ pc' = "done"
    /\ UNCHANGED <<valid_tickers, C, sem, post_ids, post_tasks, comment_tasks,
                   reply_tasks, rows, vin, vout>>

\* lines 166-179: the listing call returns a body: parse it, launch the post tasks
ListingFetched ==
    /\ pc = "listing" /\ listing.st = "get"
    /\ make_api_call(200, listing.rc) = "json"
    /\ \E body \in ListingBodies :
           LET parsed == parse_json_for_post_ids(body)
               launched == parsed.e = "ok" /\ parsed.ids # <<>>
           IN  /\ Truthy(body)
               /\ pc' = IF parsed.e # "ok" THEN "aborted"
                        ELSE IF parsed.ids = <<>> THEN "done" ELSE "posts"
               /\ post_ids' = parsed.ids
               /\ post_tasks' = IF launched THEN Launch(BuildPostTasks(parsed.ids), sem)
                                ELSE <<>>
               /\ sem' = IF launched THEN sem - Min(Len(parsed.ids), sem) ELSE sem
               /\ stat' = IF launched THEN Made(stat, "post", Len(parsed.ids)) ELSE stat
    /\ listing' = Returned
    /\ UNCHANGED <<valid_tickers, C, comment_tasks, reply_tasks, rows, vin, vout>>

\* task i of ts gets a 429 with a retry left: it sleeps, keeping its permit
TaskRateLimited(ts, i) ==
    /\ ts[i].call.st = "get"
    /\ Answers(429)
    /\ make_api_call(429, ts[i].call.rc) = "retry"

\* the sleep of task i of ts is over
TaskWakes(ts, i) == ts[i].call.st = "sleep"

\* task i of ts, which a release handed a permit, resumes in acquire(); the
\* tasks resume in the order they were handed their permits
TaskResumes(ts, i) ==
    /\ ts[i].call.st = "granted"
    /\ \A j \in 1..(i - 1) : ts[j].call.st # "granted"

\* the tasks of a tier take steps while process() awaits their gather and,
\* when the gather has raised, until the event loop stops
Running(tier) == pc \in {tier, "aborted"}

\* task i of ts gets None from make_api_call under this status, or 200 and an
\* empty body
TaskFetchFailed(ts, i, status) ==
    /\ ts[i].call.st = "get"
    /\ Answers(status)
    /\ make_api_call(status, ts[i].call.rc) = (IF status = 200 THEN "json" ELSE "None")

\* task i of ts gets a body from make_api_call
TaskFetched(ts, i) ==
    /\ ts[i].call.st = "get"
    /\ make_api_call(200, ts[i].call.rc) = "json"

\* reddit_stocks.py line 138: the post task leaves acquire() and issues its GET
PostResume(i) ==
    /\ Running("posts") /\ TaskResumes(post_tasks, i)
    /\ post_tasks' = [post_tasks EXCEPT ![i] = Start(@)]
    /\ UNCHANGED <<pc, valid_tickers, C, sem, listing, post_ids, comment_tasks,
                   reply_tasks, rows, stat, vin, vout>>

\* variant of PostRateLimited: the permit is given back for the cooldown
PostRateLimited_releases(i) ==
    /\ Running("posts") /\ TaskRateLimited(post_tasks, i)
    /\ post_tasks' = Release([post_tasks EXCEPT ![i].call = StartSleep(@)])
    /\ sem' = Released(post_tasks, sem)
    /\ stat' = Limited(stat, 429)
    /\ UNCHANGED <<pc, valid_tickers, C, listing, post_ids, comment_tasks,
                   reply_tasks, rows, vin, vout>>

\* utils.py lines 73-80 inside the semaphore (reddit_stocks.py 138-140): a 429
\* with a retry left starts the cooldown
PostRateLimited(i) ==
    /\ Running("posts") /\ TaskRateLimited(post_tasks, i)
    /\ post_tasks' = [post_tasks EXCEPT ![i].call = StartSleep(@)]
    /\ stat' = Limited(stat, 429)
    /\ UNCHANGED <<pc, valid_tickers, C, sem, listing, post_ids, comment_tasks,
                   reply_tasks, rows, vin, vout>>

PostWake(i) ==
    /\ Running("posts") /\ TaskWakes(post_tasks, i)
    /\ post_tasks' = [post_tasks EXCEPT ![i].call = RetryCall(@)]
    /\ UNCHANGED <<pc, valid_tickers, C, sem, listing, post_ids, comment_tasks,
                   reply_tasks, rows, stat, vin, vout>>

\* lines 141-143: "return []" inside the semaphore
PostFetchFailed(i) ==
    /\ Running("posts")
    /\ \E status \in {200, 429, 500} :
           /\ TaskFetchFailed(post_tasks, i, status)
           /\ post_tasks' = Release([post_tasks EXCEPT ![i] = FinishNoFetch(@, status)])
           /\ stat' = Ran(Limited(stat, status), "post", post_tasks'[i])
    /\ sem' = Released(post_tasks, sem)
    /\ UNCHANGED <<pc, valid_tickers, C, listing, post_ids, comment_tasks,
                   reply_tasks, rows, vin, vout>>

\* lines 140-154 with a body: release, parse, validate, insert, return comment_ids
PostFetched(i) ==
    /\ Running("posts") /\ TaskFetched(post_tasks, i)
    /\ \E body \in PostBodies(post_tasks[i].id, MaxComments - stat.kids.post),
          db_ok \in BOOLEAN :
           LET parsed == parse_json_for_post_content(body)
               persisted == Persist(parsed, valid_tickers, db_ok)
           IN  /\ Truthy(body)
               /\ db_ok \/ (parsed.e = "ok" /\ persisted.called = 1)
               /\ post_tasks' =
                      Release([post_tasks EXCEPT ![i] = Finish(@, parsed, persisted)])
               /\ rows' = IF parsed.e = "ok"
                          THEN rows \o Tagged("post", i, persisted.rows) ELSE rows
    /\ sem' = Released(post_tasks, sem)
    /\ stat' = Ran(stat, "post", post_tasks'[i])
    /\ UNCHANGED <<pc, valid_tickers, C, listing, post_ids, comment_tasks,
                   reply_tasks, vin, vout>>

\* line 179 returns: lines 182-191 build and launch the comment tasks; with no
\* comment task both later gathers are empty and process() returns
PostsGathered ==
    /\ pc = "posts" /\ AllDone(post_tasks) /\ ~AnyRaised(post_tasks)
    /\ LET ts == BuildCommentTasks(Results(post_tasks), post_ids, 1)
       IN  /\ comment_tasks' = Launch(ts, sem)
           /\ sem' = sem - Min(Len(ts), sem)
           /\ stat' = Made(stat, "comment", Len(ts))
           /\ pc' = IF ts = <<>> THEN "done" ELSE "comments"
    /\ post_tasks' = <<>>
    /\ UNCHANGED <<valid_tickers, C, listing, post_ids, reply_tasks, rows, vin, vout>>

\* reddit_stocks.py line 95: the comment task leaves acquire() and issues its GET
CommentResume(i) ==
    /\ Running("comments") /\ TaskResumes(comment_tasks, i)
    /\ comment_tasks' = [comment_tasks EXCEPT ![i] = Start(@)]
    /\ UNCHANGED <<pc, valid_tickers, C, sem, listing, post_ids, post_tasks,
                   reply_tasks, rows, stat, vin, vout>>

CommentRateLimited(i) ==
    /\ Running("comments") /\ TaskRateLimited(comment_tasks, i)
    /\ comment_tasks' = [comment_tasks EXCEPT ![i].call = StartSleep(@)]
    /\ stat' = Limited(stat, 429)
    /\ UNCHANGED <<pc, valid_tickers, C, sem, listing, post_ids, post_tasks,
                   reply_tasks, rows, vin, vout>>

CommentWake(i) ==
    /\ Running("comments") /\ TaskWakes(comment_tasks, i)
    /\ comment_tasks' = [comment_tasks EXCEPT ![i].call = RetryCall(@)]
    /\ UNCHANGED <<pc, valid_tickers, C, sem, listing, post_ids, post_tasks,
                   reply_tasks, rows, stat, vin, vout>>

\* lines 98-100: "return []" inside the semaphore
CommentFetchFailed(i) ==
    /\ Running("comments")
    /\ \E status \in {200, 429, 500} :
           /\ TaskFetchFailed(comment_tasks, i, status)
           /\ comment_tasks' =
                  Release([comment_tasks EXCEPT ![i] = FinishNoFetch(@, status)])
           /\ stat' = Ran(Limited(stat, status), "comment", comment_tasks'[i])
    /\ sem' = Released(comment_tasks, sem)
    /\ UNCHANGED <<pc, valid_tickers, C, listing, post_ids, post_tasks,
                   reply_tasks, rows, vin, vout>>

\* the sink after a batch whose first row was written before the last row
\* already there
Interleaved(written, batch) ==
    IF written = <<>> \/ batch = <<>> THEN written \o batch
    ELSE SubSeq(written, 1, Len(written) - 1) \o <<Head(batch)>>
         \o <<written[Len(written)]>> \o Tail(batch)

\* variant of CommentFetched: insert gives way to a sibling between its executes
CommentFetched_interleaved(i) ==
    /\ Running("comments") /\ TaskFetched(comment_tasks, i)
    /\ \E body \in CommentBodies(comment_tasks[i].post, comment_tasks[i].id,
                                 MaxReplies - stat.kids.comment),
          db_ok \in BOOLEAN :
           LET parsed == parse_json_for_comment_content(body)
               persisted == Persist(parsed, valid_tickers, db_ok)
           IN  /\ Truthy(body)
               /\ db_ok \/ (parsed.e = "ok" /\ persisted.called = 1)
               /\ comment_tasks' =
                      Release([comment_tasks EXCEPT ![i] = Finish(@, parsed, persisted)])
               /\ rows' = IF parsed.e = "ok"
                          THEN Interleaved(rows, Tagged("comment", i, persisted.rows))
                          ELSE rows
    /\ sem' = Released(comment_tasks, sem)
    /\ stat' = Ran(stat, "comment", comment_tasks'[i])
    /\ UNCHANGED <<pc, valid_tickers, C, listing, post_ids, post_tasks,
                   reply_tasks, vin, vout>>

\* the rows of the replies of a comment, handled by the comment's own task
RECURSIVE InlineReplies(_, _, _)
InlineReplies(kids, registry, k) ==
    IF k > Len(kids) THEN <<>>
    ELSE LET parsed == parse_json_for_reply_content(kids[k])
         IN  (IF parsed.e = "ok"
              THEN Tagged("reply", k, Persist(parsed, registry, TRUE).rows) ELSE <<>>)
             \o InlineReplies(kids, registry, k + 1)

\* variant of CommentFetched: depth first, the task persists the replies of its
\* comment itself before it returns
CommentFetched_depthFirst(i) ==
    /\ Running("comments") /\ TaskFetched(comment_tasks, i)
    /\ \E body \in CommentBodies(comment_tasks[i].post, comment_tasks[i].id,
                                 MaxReplies - stat.kids.comment),
          db_ok \in BOOLEAN :
           LET parsed == parse_json_for_comment_content(body)
               persisted == Persist(parsed, valid_tickers, db_ok)
           IN  /\ Truthy(body)
               /\ db_ok \/ (parsed.e = "ok" /\ persisted.called = 1)
               /\ comment_tasks' =
                      Release([comment_tasks EXCEPT ![i] = Finish(@, parsed, persisted)])
               /\ rows' = IF parsed.e = "ok"
                          THEN rows \o Tagged("comment", i, persisted.rows)
                                    \o InlineReplies(parsed.kids, valid_tickers, 1)
                          ELSE rows
    /\ sem' = Released(comment_tasks, sem)
    /\ stat' = Ran(stat, "comment", comment_tasks'[i])
    /\ UNCHANGED <<pc, valid_tickers, C, listing, post_ids, post_tasks,
                   reply_tasks, vin, vout>>

\* lines 97-111 with a body: release, parse, validate, insert, return reply_objects
CommentFetched(i) ==
    /\ Running("comments") /\ TaskFetched(comment_tasks, i)
    /\ \E body \in CommentBodies(comment_tasks[i].post, comment_tasks[i].id,
                                 MaxReplies - stat.kids.comment),
          db_ok \in BOOLEAN :
           LET parsed == parse_json_for_comment_content(body)
               persisted == Persist(parsed, valid_tickers, db_ok)
           IN  /\ Truthy(body)
               /\ db_ok \/ (parsed.e = "ok" /\ persisted.called = 1)
               /\ comment_tasks' =
                      Release([comment_tasks EXCEPT ![i] = Finish(@, parsed, persisted)])
               /\ rows' = IF parsed.e = "ok"
                          THEN rows \o Tagged("comment", i, persisted.rows) ELSE rows
    /\ sem' = Released(comment_tasks, sem)
    /\ stat' = Ran(stat, "comment", comment_tasks'[i])
    /\ UNCHANGED <<pc, valid_tickers, C, listing, post_ids, post_tasks,
                   reply_tasks, vin, vout>>

\* a task the end of the run finds unfinished is cancelled: CancelledError
\* leaves its "async with" (or acquire()), which gives its permit back
Cancelled(t) ==
    IF t.call.st = "done" THEN t ELSE [t EXCEPT !.call.st = "done", !.out = "cancelled"]

\* lines 308-314: main() has raised; asyncio.run stops the loop and cancels the
\* tasks that are left
LoopStops ==
    /\ pc = "aborted"
    /\ \E i \in 1..Len(post_tasks \o comment_tasks) :
           (post_tasks \o comment_tasks)[i].call.st # "done"
    /\ post_tasks' = [i \in 1..Len(post_tasks) |-> Cancelled(post_tasks[i])]
    /\ comment_tasks' = [i \in 1..Len(comment_tasks) |-> Cancelled(comment_tasks[i])]
    /\ sem' = C
    /\ UNCHANGED <<pc, valid_tickers, C, listing, post_ids, reply_tasks, rows, stat,
                   vin, vout>>

\* an exception of a post or comment task reaches process() through gather, at
\* a later turn of the event loop: process() and main() end with it, while the
\* other tasks of the gather go on until the loop stops
GatherRaises ==
    /\ \/ pc = "posts" /\ AnyRaised(post_tasks)
       \/ pc = "comments" /\ AnyRaised(comment_tasks)
    /\ pc' = "aborted"
    /\ UNCHANGED <<valid_tickers, C, sem, listing, post_ids, post_tasks, comment_tasks,
                   reply_tasks, rows, stat, vin, vout>>

\* line 191 returns: lines 194-203 build the reply tasks; with none process() returns
CommentsGathered ==
    /\ pc = "comments" /\ AllDone(comment_tasks) /\ ~AnyRaised(comment_tasks)
    /\ LET ts == BuildReplyTasks(Results(comment_tasks), 1)
       IN  /\ reply_tasks' = ts
           /\ stat' = Made(stat, "reply", Len(ts))
           /\ pc' = IF ts = <<>> THEN "done" ELSE "replies"
    /\ comment_tasks' = <<>>
    /\ UNCHANGED <<valid_tickers, C, sem, listing, post_ids, post_tasks, rows, vin, vout>>

\* the next reply task runs, from its first to its last line (it never suspends)
ReplyRun ==
    /\ pc = "replies"
    /\ \E i \in 1..Len(reply_tasks), db_ok \in BOOLEAN :
           LET parsed == parse_json_for_reply_content(reply_tasks[i].id)
               persisted == Persist(parsed, valid_tickers, db_ok)
           IN  /\ reply_tasks[i].call.st = "ready"
               /\ \A j \in 1..(i - 1) : reply_tasks[j].call.st = "done"
               /\ db_ok \/ (parsed.e = "ok" /\ persisted.called = 1)
               /\ reply_tasks' = [reply_tasks EXCEPT ![i] = Finish(@, parsed, persisted)]
               /\ rows' = IF parsed.e = "ok"
                          THEN rows \o Tagged("reply", i, persisted.rows) ELSE rows
               /\ stat' = Ran(stat, "reply", reply_tasks'[i])
    /\ UNCHANGED <<pc, valid_tickers, C, sem, listing, post_ids, post_tasks,
                   comment_tasks, vin, vout>>

\* line 203 returns or raises, after every reply task ran
RepliesGathered ==
    /\ pc = "replies" /\ AllDone(reply_tasks)
    /\ pc' = IF AnyRaised(reply_tasks) THEN "aborted" ELSE "done"
    /\ reply_tasks' = IF AnyRaised(reply_tasks) THEN reply_tasks ELSE <<>>
    /\ UNCHANGED <<valid_tickers, C, sem, listing, post_ids, post_tasks, comment_tasks,
                   rows, stat, vin, vout>>

Next ==
    \/ LoadTickers
    \/ ProcessStart
    \/ ListingRateLimited
    \/ ListingWake
    \/ ListingFailed
    \/ ListingFetched
    \/ \E i \in 1..Len(post_tasks) : PostResume(i)
    \/ \E i \in 1..Len(post_tasks) : PostRateLimited(i)
    \/ \E i \in 1..Len(post_tasks) : PostWake(i)
    \/ \E i \in 1..Len(post_tasks) : PostFetchFailed(i)
    \/ \E i \in 1..Len(post_tasks) : PostFetched(i)
    \/ PostsGathered
    \/ \E i \in 1..Len(comment_tasks) : CommentResume(i)
    \/ \E i \in 1..Len(comment_tasks) : CommentRateLimited(i)
    \/ \E i \in 1..Len(comment_tasks) : CommentWake(i)
    \/ \E i \in 1..Len(comment_tasks) : CommentFetchFailed(i)
    \/ \E i \in 1..Len(comment_tasks) : CommentFetched(i)
    \/ GatherRaises
    \/ LoopStops
    \/ CommentsGathered
    \/ ReplyRun
    \/ RepliesGathered

Spec == Init /\ [][Next]_vars

TypeOK ==
    /\ pc \in {"boot", "start", "listing", "posts", "comments", "replies", "done",
              "aborted", "extract", "validated", "inserted",
              "parse", "returned", "raised", "scheduled"}
    /\ sem \in 0..C

(***************************************************************************)
(* validate and insert of one node, on the candidates the extractor gives: *)
(* the specification of SECTickerValidator.validate as a function.         *)
(***************************************************************************)
aapl == <<"a", "a", "p", "l">>
ai == <<"a", "i">>

\* what the extractor can return as entity['text']
Entities ==
    {AAPL, aapl, <<"$">> \o AAPL, <<" ">> \o AAPL \o <<" ">>, <<"$", "$">> \o AAPL,
     AI, <<"$">> \o ai, EDIT, XYZ, TSLA, GME}

\* the registries validate runs against
Registries == {FALLBACK, SEC_TICKERS, SEC_TICKERS \cup EXCLUSION_LIST}

\* the Submission of the node whose text is validated
NodeSubmission ==
    parse_json_for_reply_content(Thing(CommentData("r1", JStr(AAPL), EmptyStr))).sub

InitValidate ==
    /\ pc = "extract"
    /\ valid_tickers \in Registries
    /\ C = 1
    /\ sem = 1
    /\ listing = NewCall
    /\ post_ids = <<>>
    /\ post_tasks = <<>>
    /\ comment_tasks = <<>>
    /\ reply_tasks = <<>>
    /\ rows = <<>>
    /\ stat = NoStat
    /\ vin = <<>>
    /\ vout = <<>>

\* line 98: the extractor returns one more entity
Extract ==
    /\ pc = "extract" /\ Len(vin) < MaxEntities
    /\ \E e \in Entities : vin' = Append(vin, e)
    /\ UNCHANGED <<pc, valid_tickers, C, sem, listing, post_ids, post_tasks,
                   comment_tasks, reply_tasks, rows, stat, vout>>

\* lines 100-118: validate returns
Validate ==
    /\ pc = "extract"
    /\ vout' = validate_entities(vin, valid_tickers)
    /\ pc' = "validated"
    /\ UNCHANGED <<valid_tickers, C, sem, listing, post_ids, post_tasks, comment_tasks,
                   reply_tasks, rows, stat, vin>>

\* reddit_stocks.py lines 124-126: "if tickers: self.db.insert(tickers, submission)"
InsertFound ==
    /\ pc = "validated" /\ vout # <<>>
    /\ rows' = rows \o Tagged("reply", 1, insert(vout, NodeSubmission, TRUE).rows)
    /\ pc' = "inserted"
    /\ UNCHANGED <<valid_tickers, C, sem, listing, post_ids, post_tasks, comment_tasks,
                   reply_tasks, stat, vin, vout>>

NextValidate == Extract \/ Validate \/ InsertFound

SpecValidate == InitValidate /\ [][NextValidate]_vars

(***************************************************************************)
(* One node of each tier on every response shape: the parsers of utils.py  *)
(* as functions, the task that calls them and the tasks process() builds   *)
(* from what the task returned.                                            *)
(***************************************************************************)
\* the values of the run parameters num_top_posts, num_comments_per_post and
\* num_replies_per_comment are 1..MaxParam
MaxParam == 4

\* a comment response embeds at most MaxEmbedded reply objects
MaxEmbedded == 2

\* the ids of the comments of a post response
ChildName == <<"c1", "c2", "c3", "c4", "c5", "c6", "c7", "c8">>

\* listing responses to "limit=n": k <= n posts; an error document; a list; a
\* null "data"; null "children"; an entry without id; an entry that is no dict
ListingShapes(n) ==
    {ListingJson(k) : k \in 0..Min(n, Len(PostName))}
    \cup {ErrorJson,
          JList(<<ErrorJson>>),
          JDict([data |-> JNone]),
          JDict([data |-> JDict([children |-> JNone])]),
          ListingOf(<<Thing(EmptyDict), Thing(JDict([id |-> Id("p1")]))>>),
          ListingOf(<<Id("more")>>)}

\* a post response with no post entry before a well formed comment listing
\* (raw_json[0]["data"]["children"][0]: index out of range)
NoPostEntry == JList(<<ListingOf(<<>>), ListingOf(<<Thing(JDict([id |-> Id("c1")]))>>)>>)

\* post responses that lack a part the parser subscripts: an error document
\* (raw_json[1]), no post entry, no second element, a comment listing without
\* "children"
PostIncomplete(post) ==
    {ErrorJson,
     NoPostEntry,
     JList(<<ListingOf(<<Thing(PostData(post.s[1], JStr(TSLA)))>>)>>),
     JList(<<ListingOf(<<Thing(PostData(post.s[1], JStr(TSLA)))>>), Thing(EmptyDict)>>)}

\* a post response whose post has a selftext and the title "AAPL", with one
\* comment c1
TitledPost(post, selftext) ==
    JList(<<ListingOf(<<Thing(JDict([PostData(post.s[1], selftext).m
                                        EXCEPT !.title = JStr(AAPL)]))>>),
            ListingOf(<<Thing(JDict([id |-> Id("c1")]))>>)>>)

\* post responses to "limit=n+2": a post with m <= n + 2 comments; a post with
\* a title; the incomplete ones; a post without "selftext"; a null selftext; a
\* comment entry that is no dict
PostShapes(post, n) ==
    {PostJson(post, JStr(t), [i \in 1..m |-> Id(ChildName[i])]) :
         t \in PostTexts, m \in 0..Min(n + 2, Len(ChildName))}
    \cup {TitledPost(post, JStr(t)) : t \in PostTexts}
    \cup PostIncomplete(post)
    \cup {JList(<<ListingOf(<<Thing(JDict([id |-> post]))>>), ListingOf(<<>>)>>),
          PostJson(post, JNone, <<>>),
          JList(<<ListingOf(<<Thing(PostData(post.s[1], JStr(TSLA)))>>),
                  ListingOf(<<Id("more")>>)>>)}

\* comment responses that lack a part the parser subscripts: an error
\* document, no comment entry, a comment entry without "data"
CommentIncomplete(post) ==
    {ErrorJson,
     JList(<<ListingOf(<<Thing(PostData(post.s[1], EmptyStr))>>), ListingOf(<<>>)>>),
     JList(<<ListingOf(<<Thing(PostData(post.s[1], EmptyStr))>>), ListingOf(<<EmptyDict>>)>>)}

\* comment responses: a comment with up to MaxEmbedded reply objects; the
\* incomplete ones; a null body; replies whose "children" is null; replies
\* whose "children" is the dict {"b": 1, "a": 2}
CommentShapes(post, comment) ==
    {CommentJson(post, comment, JStr(t), rs) :
         t \in CommentTexts, rs \in SeqsUpTo(ReplyObjects, MaxEmbedded)}
    \cup CommentIncomplete(post)
    \cup {CommentJson(post, comment, JNone, <<>>),
          JList(<<ListingOf(<<Thing(PostData(post.s[1], EmptyStr))>>),
                  ListingOf(<<Thing(CommentData(comment.s[1], JStr(GME),
                                      JDict([data |-> JDict([children |-> JNone])])))>>)>>),
          JList(<<ListingOf(<<Thing(PostData(post.s[1], EmptyStr))>>),
                  ListingOf(<<Thing(CommentData(comment.s[1], JStr(GME),
                                      JDict([data |-> JDict([children |->
                                          JDictOf(<<"b", "a">>,
                                                  [a |-> JNum(2), b |-> JNum(1)])])])))>>)>>)}

\* reply objects: ReplyObjects; an object without "data"; a null "data"; a
\* null body
ReplyShapes ==
    ReplyObjects
    \cup {CommentData("r1", JStr(GME), EmptyStr),
          JDict([data |-> JNone]),
          Thing(CommentData("r1", JNone, EmptyStr))}

\* the node under test: its tier, the run parameter n of the tier and the body
ParseInputs ==
    UNION {{[tier |-> "listing", n |-> n, body |-> b] : b \in ListingShapes(n)} :
               n \in 1..MaxParam}
    \cup UNION {{[tier |-> "post", n |-> n, body |-> b] : b \in PostShapes(Id("p1"), n)} :
                    n \in 1..MaxParam}
    \cup {[tier |-> "comment", n |-> n, body |-> b] :
              n \in 1..MaxParam, b \in CommentShapes(Id("p1"), Id("c1"))}
    \cup {[tier |-> "reply", n |-> 1, body |-> b] : b \in ReplyShapes}

InitParse ==
    /\ pc = "parse"
    /\ valid_tickers = SEC_TICKERS
    /\ C = 1
    /\ sem = 1
    /\ listing = Returned
    /\ post_ids = <<>>
    /\ post_tasks = <<>>
    /\ comment_tasks = <<>>
    /\ reply_tasks = <<>>
    /\ rows = <<>>
    /\ stat = NoStat
    /\ vin \in ParseInputs
    /\ vout = <<>>

\* a task from the return of its fetch on: the parser's result, validate,
\* insert, return
ParsedTask(t, parsed) == Finish(t, parsed, Persist(parsed, valid_tickers, TRUE))

Ended(t) == IF t.out = "raised" THEN "raised" ELSE "returned"

\* reddit_stocks.py line 172: post_ids = await parse_json_for_post_ids(...)
ParseListing ==
    /\ pc = "parse" /\ vin.tier = "listing"
    /\ vout' = parse_json_for_post_ids(vin.body)
    /\ post_ids' = vout'.ids
    /\ pc' = IF vout'.e = "ok" THEN "returned" ELSE "raised"
    /\ UNCHANGED <<valid_tickers, C, sem, listing, post_tasks, comment_tasks,
                   reply_tasks, rows, stat, vin>>

\* reddit_stocks.py lines 145-154: fetch_post_data_and_comment_ids after its fetch
ParsePost ==
    /\ pc = "parse" /\ vin.tier = "post"
    /\ vout' = parse_json_for_post_content(vin.body)
    /\ post_ids' = <<Id("p1")>>
    /\ post_tasks' = <<ParsedTask(NewTask(Id("p1"), Id("p1")), vout')>>
    /\ rows' = Tagged("post", 1, Persist(vout', valid_tickers, TRUE).rows)
    /\ pc' = Ended(post_tasks'[1])
    /\ UNCHANGED <<valid_tickers, C, sem, listing, comment_tasks, reply_tasks,
                   stat, vin>>

\* reddit_stocks.py lines 102-111: fetch_comment_data after its fetch
ParseComment ==
    /\ pc = "parse" /\ vin.tier = "comment"
    /\ vout' = parse_json_for_comment_content(vin.body)
    /\ comment_tasks' = <<ParsedTask(NewTask(Id("c1"), Id("p1")), vout')>>
    /\ rows' = Tagged("comment", 1, Persist(vout', valid_tickers, TRUE).rows)
    /\ pc' = Ended(comment_tasks'[1])
    /\ UNCHANGED <<valid_tickers, C, sem, listing, post_ids, post_tasks, reply_tasks,
                   stat, vin>>

\* reddit_stocks.py lines 113-126: fetch_reply_data
ParseReply ==
    /\ pc = "parse" /\ vin.tier = "reply"
    /\ vout' = parse_json_for_reply_content(vin.body)
    /\ reply_tasks' = <<ParsedTask(NewReplyTask(vin.body), vout')>>
    /\ rows' = Tagged("reply", 1, Persist(vout', valid_tickers, TRUE).rows)
    /\ pc' = Ended(reply_tasks'[1])
    /\ UNCHANGED <<valid_tickers, C, sem, listing, post_ids, post_tasks,
                   comment_tasks, stat, vin>>

\* reddit_stocks.py lines 176, 182-187, 194-198: process() builds the tasks of
\* the next tier from what the node returned
ScheduleChildren ==
    /\ pc = "returned" /\ vin.tier # "reply"
    /\ post_tasks' = IF vin.tier = "listing" THEN BuildPostTasks(post_ids)
                     ELSE post_tasks
    /\ comment_tasks' = IF vin.tier = "post"
                        THEN BuildCommentTasks(Results(post_tasks), post_ids, 1)
                        ELSE comment_tasks
    /\ reply_tasks' = IF vin.tier = "comment"
                      THEN BuildReplyTasks(Results(comment_tasks), 1)
                      ELSE reply_tasks
    /\ pc' = "scheduled"
    /\ UNCHANGED <<valid_tickers, C, sem, listing, post_ids, rows, stat, vin, vout>>

NextParse == ParseListing \/ ParsePost \/ ParseComment \/ ParseReply \/ ScheduleChildren

SpecParse == InitParse /\ [][NextParse]_vars

(***************************************************************************)
(* The startup of the validator and the first node validated after it.     *)
(***************************************************************************)
\* the local cache file of a previous run: absent, or a snapshot of symbols
Snapshots ==
    {[present |-> FALSE, tickers |-> {}],
     [present |-> TRUE, tickers |-> {GME, TSLA}],
     [present |-> TRUE, tickers |-> SEC_TICKERS]}

\* the texts of the node: up to two of AAPL, GME, TSLA, "$ai"
LoadWords == {AAPL, GME, TSLA, <<"$">> \o ai}
LoadTexts ==
    {<<>>} \cup LoadWords \cup {a \o <<" ">> \o b : a \in LoadWords, b \in LoadWords}

\* the startup's environment: does the SEC answer, the cache file on disk, and
\* the text of the node validated next
LoadInputs == [loaded : BOOLEAN, cached : Snapshots, text : LoadTexts]

InitLoad ==
    /\ pc = "boot"
    /\ valid_tickers = {}
    /\ C = 1
    /\ sem = 1
    /\ listing = NewCall
    /\ post_ids = <<>>
    /\ post_tasks = <<>>
    /\ comment_tasks = <<>>
    /\ reply_tasks = <<>>
    /\ rows = <<>>
    /\ stat = NoStat
    /\ vin \in LoadInputs
    /\ vout = <<>>

\* reddit_stocks.py lines 234-235: validator.load_tickers() returns; the cache
\* file is not read
StartupLoad ==
    /\ pc = "boot"
    /\ valid_tickers' = load_tickers(valid_tickers, vin.loaded)
    /\ pc' = "start"
    /\ UNCHANGED <<C, sem, listing, post_ids, post_tasks, comment_tasks, reply_tasks,
                   rows, stat, vin, vout>>

\* reddit_stocks.py line 123: tickers = self.validator.validate(reply_text)
ValidateNode ==
    /\ pc = "start"
    /\ vout' = validate(vin.text, valid_tickers)
    /\ pc' = "validated"
    /\ UNCHANGED <<valid_tickers, C, sem, listing, post_ids, post_tasks, comment_tasks,
                   reply_tasks, rows, stat, vin>>

NextLoad == StartupLoad \/ ValidateNode \/ InsertFound

SpecLoad == InitLoad /\ [][NextLoad]_vars

(***************************************************************************)
(* The claims.                                                             *)
(***************************************************************************)
\* the tasks of a tier, by the tier's name in rows and stat
TasksOf(tier) ==
    IF tier = "post" THEN post_tasks
    ELSE IF tier = "comment" THEN comment_tasks ELSE reply_tasks

\* the rows the i-th task of a tier handed to the sink
RowsOf(tier, i) == SelectSeq(rows, LAMBDA r : r.node = <<tier, i>>)

\* the (post id, comment id) pairs the ended post tasks yielded, in task order
RECURSIVE YieldedPairs(_)
YieldedPairs(ts) ==
    IF ts = <<>> THEN <<>>
    ELSE [k \in 1..Len(Head(ts).res) |-> <<Head(ts).id, Head(ts).res[k]>>]
         \o YieldedPairs(Tail(ts))

\* C1: in every reachable state the post and comment tasks inside a fetch call
\* (GET in flight or cooldown sleep) are together at most C, for every C.
C1_PermitBound == Held(post_tasks) + Held(comment_tasks) <= C

\* a comment task waits for the only permit while another is inside its fetch
C1_Witness ==
    /\ C = 1
    /\ Held(comment_tasks) = 1
    /\ \E i \in 1..Len(comment_tasks) : comment_tasks[i].call.st = "wait"

\* C2: comment tasks exist (created or started) only when every post task that
\* was created has ended, the failed ones included; reply tasks exist only when
\* every comment task has ended.
C2_TierBarrier ==
    /\ (comment_tasks # <<>> \/ stat.made.comment > 0)
           => (post_tasks = <<>> /\ stat.ran.post = stat.made.post)
    /\ (reply_tasks # <<>> \/ stat.made.reply > 0)
           => (comment_tasks = <<>> /\ stat.ran.comment = stat.made.comment)

\* a comment fetch is in flight in a run where a post task failed
C2_Witness ==
    /\ pc = "comments"
    /\ stat.fail.post >= 1
    /\ \E i \in 1..Len(comment_tasks) : comment_tasks[i].call.st = "get"

\* C3: when the comment tasks are built, they are, in order, one task per
\* (post, comment id) pair with the comment id taken from the return value of
\* the task that fetched that post, and later they keep that post id.
C3_CommentKeepsParent ==
    [][/\ (pc = "posts" /\ pc' = "comments")
           => [j \in 1..Len(comment_tasks') |->
                  <<comment_tasks'[j].post, comment_tasks'[j].id>>]
              = YieldedPairs(post_tasks)
       /\ (pc = "comments" /\ pc' = "comments")
           => [j \in 1..Len(comment_tasks') |->
                  <<comment_tasks'[j].post, comment_tasks'[j].id>>]
              = [j \in 1..Len(comment_tasks) |->
                  <<comment_tasks[j].post, comment_tasks[j].id>>]]_vars

\* the same comment id was yielded by two posts: two tasks, one per parent
C3_Witness ==
    /\ pc = "comments"
    /\ Len(comment_tasks) = 2
    /\ comment_tasks[1].id = comment_tasks[2].id
    /\ comment_tasks[1].post = Id("p1")
    /\ comment_tasks[2].post = Id("p2")

\* C4: every row handed to the sink carries the id of its root post: its own id
\* for a post, the post id of the task's context for a comment.
C4_RowsCarryParentId ==
    \A k \in 1..Len(rows) :
        LET r == rows[k].row
        IN  /\ "post_id" \in DOMAIN r
            /\ r.type = POST => r.post_id = r.submission_id
            /\ (r.type = COMMENT /\ comment_tasks # <<>>)
                   => JStr(r.post_id) = comment_tasks[rows[k].node[2]].post

\* C5: a parse failure at a node never ends the run: no run is aborted by the
\* exception a parser raised.
C5_FailureIsolation ==
    ~ /\ pc = "aborted"
      /\ \E tier \in {"post", "comment", "reply"} :
             \E i \in 1..Len(TasksOf(tier)) :
                 /\ TasksOf(tier)[i].out = "raised"
                 /\ TasksOf(tier)[i].err = "AttributeError"

\* C6: when process() has ended it has returned, and every post id of the
\* listing, every comment id a post task yielded and every reply object a
\* comment task yielded has had its task run to its end.
C6_ReturnsComplete ==
    pc \in {"done", "aborted"}
        => /\ pc = "done"
           /\ stat.made.post = Len(post_ids)
           /\ stat.made.comment = stat.kids.post
           /\ stat.made.reply = stat.kids.comment
           /\ \A tier \in {"post", "comment", "reply"} :
                  stat.ran[tier] = stat.made[tier]

\* C7: every row handed to the sink has a symbol of the registry and comes from
\* a node that was fetched and parsed; a node whose fetch or parse failed made
\* no insert call and has no row.
C7_RowsOnlyFromParsedNodes ==
    /\ \A k \in 1..Len(rows) :
           /\ rows[k].row.ticker \in valid_tickers
           /\ LET ts == TasksOf(rows[k].node[1])
              IN  ts # <<>> => /\ ts[rows[k].node[2]].out = "ok"
                               /\ ts[rows[k].node[2]].ins = 1
    /\ \A tier \in {"post", "comment", "reply"} :
           \A i \in 1..Len(TasksOf(tier)) :
               LET t == TasksOf(tier)[i]
               IN  (t.out \in {"nofetch", "noparse"}
                       \/ (t.out = "raised" /\ t.err # "DatabaseError"))
                       => (t.ins = 0 /\ RowsOf(tier, i) = <<>>)

\* rows of one post are in the sink while its sibling ended without a Submission
C7_Witness ==
    /\ pc = "posts"
    /\ RowsOf("post", 1) # <<>>
    /\ Len(post_tasks) = 2
    /\ post_tasks[2].out = "noparse"

\* C8: the result of validate has no symbol twice, it has every registered,
\* not excluded symbol that some candidate spells (as is, lower case, with
\* one '$' before it, with blanks around it), and the candidates
\* ["AAPL", "aapl", "$AAPL"] with AAPL registered give exactly ["AAPL"].
C8_ValidateDeduplicates ==
    pc \in {"validated", "inserted"}
        => /\ \A i, j \in 1..Len(vout) : vout[i] = vout[j] => i = j
           /\ (/\ AAPL \in valid_tickers
               /\ \E i \in 1..Len(vin) :
                      vin[i] \in {AAPL, aapl, <<"$">> \o AAPL, <<" ">> \o AAPL \o <<" ">>})
                  => Cardinality({i \in 1..Len(vout) : vout[i] = AAPL}) = 1
           /\ (AAPL \in valid_tickers /\ vin = <<AAPL, aapl, <<"$">> \o AAPL>>)
                  => vout = <<AAPL>>

\* validate has returned for the candidates ["AAPL", "aapl", "$AAPL"]
C8_Witness ==
    /\ pc = "validated"
    /\ vin = <<AAPL, aapl, <<"$">> \o AAPL>>
    /\ vout = <<AAPL>>

\* C9: no symbol of the exclusion list is in the result of validate or in a row
\* handed to the sink, whatever the candidates and the registry.
C9_ExcludedNeverEmitted ==
    /\ \A i \in 1..Len(vout) : vout[i] \notin {EDIT, AI, WELL, LOT}
    /\ \A k \in 1..Len(rows) : rows[k].row.ticker \notin {EDIT, AI, WELL, LOT}

\* EDIT and AI are registered and were extracted, verbatim and as "$ai", next
\* to AAPL, and the rows of the node are in the sink
C9_Witness ==
    /\ pc = "inserted"
    /\ EDIT \in valid_tickers /\ AI \in valid_tickers
    /\ vin = <<EDIT, <<"$">> \o ai, AAPL>>
    /\ rows # <<>>

\* C10: a fetch call issues at most two GETs, the second only after one
\* finished cooldown that a 429 started; a call that had two 429 ends as a
\* failed fetch: no child, no insert, no row; a task whose call had one 429
\* and then a body that parses made at most one insert call and its rows
\* hold no symbol twice.
C10_RetryBudget ==
    /\ listing.gets <= 2
    /\ listing.gets = 2 => (listing.slept = 1 /\ listing.lim >= 1)
    /\ listing.lim = 2 => (pc = "done" /\ post_tasks = <<>> /\ stat.made.post = 0)
    /\ \A tier \in {"post", "comment"} :
           \A i \in 1..Len(TasksOf(tier)) :
               LET t == TasksOf(tier)[i]
                   rs == RowsOf(tier, i)
               IN  /\ t.call.gets <= 2
                   /\ t.call.gets = 2 => (t.call.slept = 1 /\ t.call.lim >= 1)
                   /\ t.call.lim = 2
                          => /\ t.call.st = "done" /\ t.out = "nofetch"
                             /\ t.res = <<>> /\ t.ins = 0 /\ rs = <<>>
                   /\ (t.call.lim = 1 /\ t.out = "ok")
                          => /\ t.ins <= 1
                             /\ \A a, b \in 1..Len(rs) :
                                    rs[a].row.ticker = rs[b].row.ticker => a = b

\* a post task was rate limited once, then fetched, and its rows are in the sink
C10_Witness ==
    \E i \in 1..Len(post_tasks) :
        /\ post_tasks[i].call.lim = 1 /\ post_tasks[i].call.gets = 2
        /\ post_tasks[i].out = "ok" /\ post_tasks[i].ins = 1
        /\ Len(RowsOf("post", i)) = 1

\* the kind of Submission the tasks of a tier produce
KindOf(tier) == IF tier = "post" THEN POST ELSE IF tier = "comment" THEN COMMENT ELSE REPLY

\* the id of the node a task works on
NodeId(tier, t) == IF tier = "reply" THEN ChildId(t.id).v ELSE t.id

C12_RunReportsCounts ==
    pc \in {"done", "aborted"}
        => /\ pc = "done"
           /\ LET r == Report(listing, stat)
              IN  /\ {"visited", "failed", "persisted"} \subseteq DOMAIN r
                  /\ r.visited = stat.made
                  /\ r.failed = stat.fail
                  /\ r.persisted = Len(rows)

\* the ids of the valid entries of a listing response, in source order; <<>>
\* when the data/children container is missing or no list
C13_ValidIds(body) ==
    IF /\ body.k = "dict" /\ "data" \in DOMAIN body.m
       /\ body.m.data.k = "dict" /\ "children" \in DOMAIN body.m.data.m
       /\ body.m.data.m.children.k = "list"
    THEN LET entries == body.m.data.m.children.items
             valid == SelectSeq(entries, LAMBDA c :
                          /\ c.k = "dict" /\ "data" \in DOMAIN c.m
                          /\ c.m.data.k = "dict" /\ "id" \in DOMAIN c.m.data.m)
         IN  [i \in 1..Len(valid) |-> valid[i].m.data.m.id]
    ELSE <<>>

\* C13: parse_json_for_post_ids returns the ids of the valid entries of the
\* listing in source order, and the empty list, without raising, when the
\* data/children container is missing or malformed.
C13_ListingParser ==
    (vin.tier = "listing" /\ pc # "parse")
        => /\ vout.e = "ok"
           /\ vout.ids = C13_ValidIds(vin.body)

\* the response of a node that lacks a part its parser subscripts
C14_Incomplete ==
    \/ vin.tier = "post" /\ vin.body \in PostIncomplete(Id("p1"))
    \/ vin.tier = "comment" /\ vin.body \in CommentIncomplete(Id("p1"))

\* C14: a post or comment response with an absent key or an index out of range
\* on the parser's path gives (None, "", []), also when its comment listing was
\* well formed; the task makes no insert and returns no children, ending as a
\* task whose fetch failed does, and no child task is built for it.
C14_MissingFieldIsParseFailure ==
    (C14_Incomplete /\ pc # "parse")
        => /\ vout = ParseFailed
           /\ pc \in {"returned", "scheduled"}
           /\ rows = <<>>
           /\ LET t == TasksOf(vin.tier)[1]
              IN  /\ t.out = "noparse" /\ t.ins = 0 /\ t.res = <<>>
                  /\ [t EXCEPT !.out = "nofetch"]
                         = FinishNoFetch(NewTask(t.id, t.post), 200)
           /\ pc = "scheduled"
                  => (IF vin.tier = "post" THEN comment_tasks ELSE reply_tasks) = <<>>

\* the post response with no post entry and a well formed comment listing [c1]
\* was parsed and process() built no comment task from it
C14_Witness ==
    /\ vin.tier = "post" /\ vin.body = NoPostEntry
    /\ C13_ValidIds(vin.body.items[2]) = <<Id("c1")>>
    /\ pc = "scheduled"
    /\ post_tasks[1].out = "noparse"
    /\ comment_tasks = <<>>

\* the ids of the direct child comments of a well formed post response
C18_ChildIds(body) ==
    LET entries == body.items[2].m.data.m.children.items
    IN  [i \in 1..Len(entries) |-> entries[i].m.data.m.id]

\* C18: for the run parameter num_comments_per_post = n the post parser returns
\* the first n direct child comment ids of the response in source order, and
\* process() builds at most n comment tasks for the post.
C18_CommentIdsCappedByParameter ==
    (vin.tier = "post" /\ pc \in {"returned", "scheduled"} /\ vout.sub # NoSubmission)
        => /\ Len(vout.kids) <= vin.n
           /\ vout.kids = Take(C18_ChildIds(vin.body), vin.n)
           /\ pc = "scheduled" => Len(comment_tasks) <= vin.n

\* C19: for the run parameter num_replies_per_comment = n the comment parser
\* returns at most n reply objects, and process() builds at most n reply tasks
\* for the comment.
C19_RepliesCappedByParameter ==
    (vin.tier = "comment" /\ pc \in {"returned", "scheduled"})
        => /\ Len(vout.kids) <= vin.n
           /\ pc = "scheduled" => Len(reply_tasks) <= vin.n

\* C20: each parser is total: on every response shape it returns, the listing
\* parser a list and the others a Submission or the parse-failed result, and
\* no exception reaches the task that called it.
C20_ParsersTotal ==
    pc # "parse"
        => /\ vout.e = "ok"
           /\ pc # "raised"
           /\ vin.tier # "listing" => TasksOf(vin.tier)[1].out \in {"ok", "noparse"}

\* C15: a failed db.insert of one node stays at that node: the task that made
\* the call still ends by returning (its children included), and the run is
\* not ended by the failure.
C15_InsertFailureContained ==
    /\ \A tier \in {"post", "comment", "reply"} :
           \A i \in 1..Len(TasksOf(tier)) :
               LET t == TasksOf(tier)[i]
               IN  t.ins = 1 => (t.out = "ok" /\ t.err = "")
    /\ pc = "aborted"
           => \A tier \in {"post", "comment", "reply"} :
                  \A i \in 1..Len(TasksOf(tier)) :
                      TasksOf(tier)[i].err # "DatabaseError"

\* C17: the permits are held exactly by the post and comment tasks inside their
\* fetch call (GET in flight or cooldown sleep) or handed a permit and about to
\* issue their GET: a task queued on the semaphore or just handed a permit has
\* issued no GET, and a task inside its fetch has not parsed, validated or
\* inserted; a task that has parsed, validated or inserted holds no permit.
C17_PermitOnlyAroundFetch ==
    /\ sem + Held(post_tasks) + Held(comment_tasks) = C
    /\ \A tier \in {"post", "comment"} :
           \A i \in 1..Len(TasksOf(tier)) :
               LET t == TasksOf(tier)[i]
               IN  /\ t.call.st \in {"wait", "granted"} => t.call.gets = 0
                   /\ t.call.st \in {"wait", "granted", "get", "sleep"}
                          => /\ t.out = "" /\ t.ins = 0 /\ t.text = <<>> /\ t.res = <<>>
                             /\ RowsOf(tier, i) = <<>>
                   /\ (t.out # "" \/ t.ins > 0 \/ RowsOf(tier, i) # <<>>)
                          => t.call.st = "done"

\* with one permit, the first post task has inserted its rows and returned
\* while the second holds the permit in its fetch
C17_Witness ==
    /\ C = 1 /\ sem = 0
    /\ pc = "posts" /\ Len(post_tasks) = 2
    /\ post_tasks[1].out = "ok" /\ post_tasks[1].ins = 1
    /\ RowsOf("post", 1) # <<>>
    /\ post_tasks[2].call.st = "get"

\* C16: when the load of the registry fails, the run goes on and validates
\* against the cached local snapshot if there is one, else against the
\* built-in list; with an empty registry no candidate is accepted and no row
\* is inserted.
C16_FallbackOrder ==
    /\ (pc # "boot" /\ ~vin.loaded)
           => valid_tickers = (IF vin.cached.present THEN vin.cached.tickers
                               ELSE FALLBACK)
    /\ (pc \in {"validated", "inserted"} /\ valid_tickers = {})
           => (vout = <<>> /\ rows = <<>>)

\* the data of the node of a parsed response: raw_json[0] (post), raw_json[1]
\* (comment), the reply object or its "data"
C21_NodeData ==
    IF vin.tier = "post" THEN vin.body.items[1].m.data.m.children.items[1].m.data.m
    ELSE IF vin.tier = "comment"
    THEN vin.body.items[2].m.data.m.children.items[1].m.data.m
    ELSE IF "data" \in DOMAIN vin.body.m THEN vin.body.m.data.m ELSE vin.body.m

\* the string under a key of the node's data, "" when absent
C21_Field(key) == IF key \in DOMAIN C21_NodeData THEN C21_NodeData[key].s ELSE <<>>

\* the stripped selftext, or the stripped body when that is empty
C21_Body == IF strip(C21_Field("selftext")) # <<>> THEN strip(C21_Field("selftext"))
            ELSE strip(C21_Field("body"))

\* C21: the text a parsed node gives to the validator is its stripped
\* body/selftext when that is not empty and its title otherwise; a node with
\* neither still parses and returns its children, but makes no insert.
C21_TextRule ==
    (vin.tier # "listing" /\ pc \in {"returned", "scheduled"} /\ vout.sub # NoSubmission)
        => /\ vout.text = (IF C21_Body # <<>> THEN C21_Body ELSE C21_Field("title"))
           /\ vout.text = <<>>
                  => LET t == TasksOf(vin.tier)[1]
                     IN  /\ t.out = "ok" /\ t.res = vout.kids
                         /\ t.ins = 0 /\ rows = <<>>

\* C22: a post task whose fetch and parse succeeded returns the comment ids of
\* the response's comment listing (the first NUM_COMMENTS_PER_POST of them),
\* whether its text is empty, validate found no symbol or rows were inserted.
C22_ChildrenWhateverValidation ==
    (vin.tier = "post" /\ pc \in {"returned", "scheduled"} /\ vout.sub # NoSubmission)
        => LET t == post_tasks[1]
           IN  /\ t.out = "ok"
               /\ t.res = vout.kids
               /\ t.res = Take(C18_ChildIds(vin.body), NUM_COMMENTS_PER_POST)
               /\ t.ins = (IF t.text # <<>> /\ validate(t.text, valid_tickers) # <<>>
                           THEN 1 ELSE 0)

\* a post with text TSLA and the comments c1, c2 inserted a row and returned
\* both ids
C22_Witness ==
    /\ vin.tier = "post" /\ pc = "returned"
    /\ post_tasks[1].text = TSLA /\ post_tasks[1].ins = 1 /\ Len(rows) = 1
    /\ post_tasks[1].res = <<Id("c1"), Id("c2")>>

\* C23: the registry is set by the one step of load_tickers, taken before the
\* listing GET is issued and before any task exists; no later step of the run
\* changes it, and the run never comes back to the load.
C23_RegistryFrozen ==
    [][/\ pc = "boot"
              => /\ listing = NewCall /\ stat = NoStat /\ rows = <<>>
                 /\ post_tasks = <<>> /\ comment_tasks = <<>> /\ reply_tasks = <<>>
                 /\ pc' = "start"
       /\ pc # "boot" => (valid_tickers' = valid_tickers /\ pc' # "boot")]_vars

\* a run that fell back to the built-in list has returned with rows validated
\* against it
C23_Witness ==
    /\ pc = "done"
    /\ valid_tickers = FALLBACK
    /\ stat.ran.post = 2 /\ stat.ran.comment = 1
    /\ rows # <<>>

\* the set of normalized candidates of a list of entities
C24_Normalized(es) == {ticker_upper(es[i]) : i \in 1..Len(es)}

\* the permutations of a list of entities, the list twice, the list with one
\* of its candidates once more, and the list with blanks around every candidate
C24_Variants(es) ==
    {[i \in 1..Len(es) |-> es[p[i]]] : p \in Permutations(1..Len(es))}
    \cup {es \o es}
    \cup {Append(es, es[i]) : i \in 1..Len(es)}
    \cup {[i \in 1..Len(es) |-> <<" ">> \o es[i] \o <<" ">>]}

\* C24: the result of validate is in ascending order of Python's string
\* comparison, and every permutation or duplication of the candidates, and
\* every list with the same set of normalized candidates, gives the same list
\* against the same registry.
C24_SortedAndOrderFree ==
    pc \in {"validated", "inserted"}
        => /\ \A i \in 1..(Len(vout) - 1) : StrLess(vout[i], vout[i + 1])
           /\ \A es \in C24_Variants(vin) :
                  C24_Normalized(es) = C24_Normalized(vin)
                      => validate_entities(es, valid_tickers) = vout

\* validate has returned ["AAPL", "GME", "TSLA"] for the candidates
\* ["TSLA", "GME", "$AAPL"]
C24_Witness ==
    /\ pc = "validated"
    /\ vin = <<TSLA, GME, <<"$">> \o AAPL>>
    /\ vout = <<AAPL, GME, TSLA>>

\* C25: the insert call of a node with the k symbols of validate executes
\* exactly k INSERTs, the i-th with the i-th symbol, each with the id, author,
\* subreddit, score, kind and creation time of the node's Submission; no two
\* of them have the same symbol.
C25_OneRowPerSymbol ==
    pc = "inserted"
        => /\ Len(rows) = Len(vout)
           /\ \A k \in 1..Len(rows) :
                  /\ rows[k].row.ticker = vout[k]
                  /\ rows[k].row.submission_id = NodeSubmission.submission_id
                  /\ rows[k].row.author = NodeSubmission.author
                  /\ rows[k].row.subreddit = NodeSubmission.subreddit
                  /\ rows[k].row.score = NodeSubmission.score
                  /\ rows[k].row.type = NodeSubmission.type
                  /\ rows[k].row.created_utc
                         = [utc_seconds |-> NodeSubmission.created_utc.n]
           /\ \A j, k \in 1..Len(rows) : rows[j].row.ticker = rows[k].row.ticker => j = k

\* the candidates ["GME", "$AAPL", "GME"] gave k = 2 symbols and two rows
C25_Witness ==
    /\ pc = "inserted"
    /\ vin = <<GME, <<"$">> \o AAPL, GME>>
    /\ vout = <<AAPL, GME>>
    /\ Len(rows) = 2
    /\ rows[1].row.author = Id("u2") /\ rows[2].row.author = Id("u2")

C27_Label(tier) ==
    IF tier = "post" THEN JStr(<<"POST">>)
    ELSE IF tier = "comment" THEN JStr(<<"COMMENT">>) ELSE JStr(<<"REPLY">>)

\* C27: the kind value of every row handed to the sink is one of the sink's
\* closed set POST, COMMENT, REPLY, and it is the one of the tier of the node
\* that made the row.
C27_KindInClosedSet ==
    \A k \in 1..Len(rows) :
        /\ type_value(rows[k].row.type) \in submission_type
        /\ type_value(rows[k].row.type) = C27_Label(rows[k].node[1])

\* process() has returned and nothing was done: no task of any tier was
\* created or run, every permit is free, no row was handed to the sink
C28_NoWork ==
    /\ pc = "done"
    /\ post_tasks = <<>> /\ comment_tasks = <<>> /\ reply_tasks = <<>>
    /\ stat.made = NoStat.made /\ stat.ran = NoStat.ran
    /\ sem = C
    /\ rows = <<>>

\* C28: when the listing call has ended without a body, and when the listing
\* was parsed to no post id, process() has returned with no work done.
C28_EmptyListingEndsRun ==
    /\ (listing.st = "done" /\ listing.gets >= 1) => C28_NoWork
    /\ (listing = Returned /\ post_ids = <<>> /\ pc # "aborted") => C28_NoWork

\* the listing call failed on its second 429, with two permits
C28_Witness ==
    /\ C = 2 /\ sem = 2
    /\ pc = "done"
    /\ listing.st = "done" /\ listing.gets = 2 /\ listing.lim = 2
    /\ post_tasks = <<>> /\ rows = <<>>

\* C29: the free permits and the permits of the tasks inside their fetch call
\* or just handed one are C together and the free ones are 0..C; a task that
\* ended, by the early return of a failed fetch, by its normal return, by an
\* exception or by its cancellation, holds none; when process() has returned
\* all C permits are free.
C29_PermitConservation ==
    /\ sem \in 0..C
    /\ C - sem = Held(post_tasks) + Held(comment_tasks)
    /\ \A tier \in {"post", "comment"} :
           \A i \in 1..Len(TasksOf(tier)) :
               TasksOf(tier)[i].out \in {"nofetch", "noparse", "ok", "raised", "cancelled"}
                   => TasksOf(tier)[i].call.st = "done"
    /\ pc = "done" => sem = C

\* with one permit, the first post task returned [] on a failed fetch and its
\* permit went to the second, which is in its GET
C29_Witness ==
    /\ C = 1 /\ sem = 0
    /\ pc = "posts" /\ Len(post_tasks) = 2
    /\ post_tasks[1].out = "nofetch" /\ post_tasks[1].call.st = "done"
    /\ post_tasks[2].call.st = "get" /\ post_tasks[2].call.gets = 1

\* the tasks of both tiers that are inside a fetch call, but for task i of tier
C30_OthersInFlight(tier, i) ==
    Cardinality({<<r, j>> \in ({"post"} \X (1..Len(post_tasks)))
                              \cup ({"comment"} \X (1..Len(comment_tasks))) :
                     /\ <<r, j>> # <<tier, i>>
                     /\ TasksOf(r)[j].call.st \in {"get", "sleep"}})

\* C30: a task in its cooldown holds its permit: at most C - 1 other tasks are
\* inside a fetch call and at most C - 1 permits are free; the step into the
\* cooldown, the step from the cooldown to the retry GET and every step taken
\* by others meanwhile leave the task inside its call (the end of a run that
\* raised cancels it), and the first two leave the free permits as they are.
C30_PermitKeptThroughCooldown ==
    [][\A tier \in {"post", "comment"} :
           \A i \in 1..Len(TasksOf(tier)) :
               LET t == TasksOf(tier)[i]
               IN  /\ t.call.st = "sleep"
                          => /\ C30_OthersInFlight(tier, i) <= C - 1
                             /\ sem <= C - 1
                             /\ t.out = ""
                             /\ Len(TasksOf(tier)') = Len(TasksOf(tier))
                             /\ \/ TasksOf(tier)'[i].call.st \in {"sleep", "get"}
                                \/ TasksOf(tier)'[i].out = "cancelled"
                   /\ (/\ t.call.st \in {"get", "sleep"}
                       /\ Len(TasksOf(tier)') = Len(TasksOf(tier))
                       /\ TasksOf(tier)'[i].call.st \in {"get", "sleep"}
                       /\ TasksOf(tier)'[i].call.st # t.call.st)
                          => sem' = sem]_vars

\* with one permit, the first post task is in its cooldown and the second
\* still queues on the semaphore
C30_Witness ==
    /\ C = 1 /\ sem = 0
    /\ pc = "posts" /\ Len(post_tasks) = 2
    /\ post_tasks[1].call.st = "sleep" /\ post_tasks[1].call.gets = 1
    /\ post_tasks[2].call.st = "wait"

\* the rows a step added to the sink
C31_Batch == SubSeq(rows', Len(rows) + 1, Len(rows'))

\* C31: every step that changes the sink appends the whole batch of one task,
\* which was running and had written nothing, and ends that task in the same
\* step, while no other task ends: the rows of a node are contiguous in the
\* sink and no other node's row lies between them.
C31_BatchesContiguous ==
    [][rows' # rows =>
        /\ Len(rows') > Len(rows) /\ SubSeq(rows', 1, Len(rows)) = rows
        /\ \E tier \in {"post", "comment", "reply"} :
               \E i \in 1..Len(TasksOf(tier)) :
                   /\ \A k \in 1..Len(C31_Batch) : C31_Batch[k].node = <<tier, i>>
                   /\ RowsOf(tier, i) = <<>>
                   /\ TasksOf(tier)[i].out = ""
                   /\ TasksOf(tier)[i].call.st \in {"get", "ready"}
                   /\ TasksOf(tier)'[i].call.st = "done"
                   /\ TasksOf(tier)'[i].ins = 1
                   /\ Len(C31_Batch) = Len(validate(TasksOf(tier)'[i].text, valid_tickers))
                   /\ \A r \in {"post", "comment", "reply"} :
                          /\ Len(TasksOf(r)') = Len(TasksOf(r))
                          /\ \A j \in 1..Len(TasksOf(r)) :
                                 <<r, j>> # <<tier, i>>
                                     => TasksOf(r)'[j].out = TasksOf(r)[j].out
        /\ \A a, b, c \in 1..Len(rows') :
               (a < b /\ b < c /\ rows'[a].node = rows'[c].node)
                   => rows'[b].node = rows'[a].node]_vars

\* two comment tasks ran side by side on two permits; the second ended first
\* and the sink holds its two rows, then the two rows of the first
C31_Witness ==
    /\ C = 2 /\ pc = "comments" /\ Len(comment_tasks) = 2
    /\ comment_tasks[1].out = "ok" /\ comment_tasks[2].out = "ok"
    /\ Len(rows) >= 4
    /\ [k \in 1..4 |-> rows[Len(rows) - 4 + k].node]
       = << <<"comment", 2>>, <<"comment", 2>>, <<"comment", 1>>, <<"comment", 1>> >>

\* C32: in the sink no row of a comment precedes a row of a post and no row of
\* a reply precedes a row of a post or of a comment; while the post tier runs
\* the sink holds rows of posts only, while the comment tier runs no row of a
\* reply; and a task that has returned children has written its own rows.
C32_RowsInTierOrder ==
    /\ \A a, b \in 1..Len(rows) : a < b => rows[a].row.type <= rows[b].row.type
    /\ pc = "posts" => \A k \in 1..Len(rows) : rows[k].row.type = POST
    /\ pc = "comments" => \A k \in 1..Len(rows) : rows[k].row.type \in {POST, COMMENT}
    /\ \A tier \in {"post", "comment"} :
           \A i \in 1..Len(TasksOf(tier)) :
               LET t == TasksOf(tier)[i]
               IN  t.res # <<>>
                       => Len(RowsOf(tier, i)) = Len(validate(t.text, valid_tickers))

\* the run returned with the rows of two posts, then of a comment, then of
\* its reply
C32_Witness ==
    /\ pc = "done"
    /\ [k \in 1..Len(rows) |-> rows[k].row.type]
       = <<POST, POST, COMMENT, COMMENT, REPLY, REPLY>>

====
